---- MODULE Spec2Model ----
(***************************************************************************)
(* A model of hsync (src/hsync.go): the two scans that fill the table      *)
(* 'entries' (visitSource, visitTarget), the construction of the rename    *)
(* relation in main, and the rename resolver processRenames.               *)
(*                                                                         *)
(* Abstractions.                                                           *)
(*  - A path is a positive integer; the order of the integers is the       *)
(*    lexical order in which filepath.Walk visits the files of a tree.     *)
(*    The empty string "" is NoPath.                                       *)
(*  - A file on disk is a record: 'regular' (its mode), 'size' in bytes,   *)
(*    'data' (one symbol per BLOCKSIZE block, the last block possibly      *)
(*    partial) and 'bad' (0: every read succeeds; k > 0: reading the       *)
(*    block of index k or any later block fails, so bad = 1 is a file that *)
(*    cannot be read at all).                                              *)
(*  - The state of an md5 digest is the sequence of blocks written to it,  *)
(*    and md5Sum wraps that sequence: two digests are equal exactly when   *)
(*    the bytes hashed are equal (md5 collisions are not modelled).        *)
(*  - A *fileID is the record it points to; nil and &unsolvable are two    *)
(*    records no file's fileID equals (a file's path is never "" nor the   *)
(*    bare separator).                                                     *)
(***************************************************************************)
EXTENDS Integers, Sequences, FiniteSets, TLC

VARIABLES
    source,       \* the SOURCE tree: path -> file
    target,       \* the TARGET tree: path -> file (renamed by processRenames)
    entries,      \* map[partialHash]fileMatch
    renameOps,    \* map[string]string, oldpath -> newpath
    reverseOps,   \* map[string]string, newpath -> oldpath
    clobber,      \* flag -f
    process,      \* flag -p
    pc,           \* where the program is
    cursor,       \* the last path the current walk has visited
    oldpath,      \* processRenames: local oldpath
    newpath,      \* processRenames: local newpath
    cycleMarker,  \* processRenames: local cycleMarker
    ranged,       \* processRenames: keys the range loop produced that are still in renameOps
    tmps,         \* number of temporary files ioutil.TempFile has created
    run,          \* 1: first invocation of the program, 2: second invocation
    log           \* what the program has done so far, one record per visit or rename

vars == <<source, target, entries, renameOps, reverseOps, clobber, process, pc,
          cursor, oldpath, newpath, cycleMarker, ranged, tmps, run, log>>

BLOCKSIZE == 4096

\* Number of path names of the TARGET tree in the scanning specifications.
NumPaths == 3

\* Number of path names of the SOURCE tree in the scanning specifications.
NumSourcePaths == 2

\* Number of path names in the specification of processRenames.
NumRenamePaths == 4

\* The number of paths of SOURCE in the specification of the source scan.
NumScanPaths == 4

\* The number of top-level paths of TARGET in the specification of the replay.
NumReplayPaths == 2
NumRunPaths == 3
NumOrderSourcePaths == 2
NumOrderPaths == 3

Paths == 1..NumPaths
NoPath == 0
SEPARATOR == -1

EmptyMap == [x \in {} |-> 0]

Put(m, k, v) == [x \in DOMAIN m \cup {k} |-> IF x = k THEN v ELSE m[x]]

Delete(m, k) == [x \in DOMAIN m \ {k} |-> m[x]]

(***************************************************************************)
(* fileID, fileMatch, partialHash                                          *)
(***************************************************************************)
nil == [path |-> NoPath, h |-> <<>>]

unsolvable == [path |-> SEPARATOR, h |-> <<>>]

\* fileMatch{}: the dummy match.
dummy == [sourceID |-> nil, targetID |-> nil]

\* string(h.Sum(nil)) of a digest to which the blocks 'written' were written.
md5Sum(written) == <<written>>

newFileEntry(path, size) ==
    [id |-> [path |-> path, h |-> <<>>],
     key |-> [size |-> size, pos |-> 0, hash |-> <<>>]]

(***************************************************************************)
(* Files and reads                                                         *)
(***************************************************************************)
File(size, data, bad) == [regular |-> TRUE, size |-> size, data |-> data, bad |-> bad]

\* A directory or a symbolic link: Mode().IsRegular() is false.
NotRegular == [regular |-> FALSE, size |-> 1, data |-> <<1>>, bad |-> 0]

\* os.Open or ReadAt of the block at offset pos*BLOCKSIZE fails.
ReadFails(f, pos) == f.bad # 0 /\ pos + 1 >= f.bad

\* The n of ReadAt(buf[:], pos*BLOCKSIZE) on a file of f.size bytes.
BytesRead(f, pos) ==
    LET left == f.size - pos * BLOCKSIZE
    IN  IF left <= 0 THEN 0 ELSE IF left < BLOCKSIZE THEN left ELSE BLOCKSIZE

\* One roll of the file fid.path of 'tree'; err is "nil", "EOF" or "error".
rollingChecksum(fid, key, tree) ==
    LET f == tree[fid.path]
    IN  IF ReadFails(f, key.pos)
        THEN [fid |-> fid, key |-> key, err |-> "error"]
        ELSE LET n == BytesRead(f, key.pos)
                 h == IF n > 0 THEN Append(fid.h, f.data[key.pos + 1]) ELSE fid.h
             IN  [fid |-> [fid EXCEPT !.h = h],
                  key |-> [key EXCEPT !.pos = @ + 1, !.hash = md5Sum(h)],
                  err |-> IF n < BLOCKSIZE THEN "EOF" ELSE "nil"]

\* A skip loop that rolls the file once before it looks at the table.
SkipDummiesEager(es, tree, fid, key, err, rolls) ==
    LET r == rollingChecksum(fid, key, tree)
    IN  IF r.err = "error"
        THEN [fid |-> fid, key |-> key, err |-> "error", rolls |-> rolls + 1]
        ELSE [fid |-> r.fid, key |-> r.key, err |-> r.err, rolls |-> rolls + 1]

(***************************************************************************)
(* The loop "Skip dummy matches" of both visitors.  'rolls' counts the     *)
(* calls of rollingChecksum.                                               *)
(***************************************************************************)
RECURSIVE SkipDummies(_, _, _, _, _, _)
SkipDummies(es, tree, fid, key, err, rolls) ==
    IF key \in DOMAIN es /\ es[key].sourceID = nil /\ err # "EOF"
    THEN LET r == rollingChecksum(fid, key, tree)
         IN  IF r.err = "error"
             THEN [fid |-> fid, key |-> key, err |-> "error", rolls |-> rolls + 1]
             ELSE SkipDummies(es, tree, r.fid, r.key, r.err, rolls + 1)
    ELSE [fid |-> fid, key |-> key, err |-> err, rolls |-> rolls]

(***************************************************************************)
(* visitSource                                                             *)
(***************************************************************************)
\* The conflict loop of visitSource; 'returned' is the return on a read
\* error of the input.
RECURSIVE SourceConflictLoop(_, _, _, _, _, _, _)
SourceConflictLoop(es, tree, inputID, inputKey, conflictID, conflictKey, err) ==
    IF inputKey = conflictKey /\ err = "nil"
    THEN LET es1 == Put(es, inputKey, dummy)
             ri == rollingChecksum(inputID, inputKey, tree)
             rc == rollingChecksum(conflictID, conflictKey, tree)
         IN  IF ri.err = "error"
             THEN [entries |-> es1, returned |-> TRUE,
                   inputID |-> inputID, inputKey |-> inputKey,
                   conflictID |-> conflictID, conflictKey |-> conflictKey,
                   err |-> "error"]
             ELSE IF rc.err = "error"
             THEN [entries |-> es1, returned |-> FALSE,
                   inputID |-> ri.fid, inputKey |-> ri.key,
                   conflictID |-> conflictID, conflictKey |-> conflictKey,
                   err |-> "error"]
             ELSE SourceConflictLoop(es1, tree, ri.fid, ri.key, rc.fid, rc.key, rc.err)
    ELSE [entries |-> es, returned |-> FALSE,
          inputID |-> inputID, inputKey |-> inputKey,
          conflictID |-> conflictID, conflictKey |-> conflictKey, err |-> err]

\* What one visit leaves: the table, the branch taken, the final keys of the
\* files rolled and the paths involved (NoPath when there is none);
\* 'rolled' holds the files rollingChecksum was called on.
Outcome(es, branch, input, rolled, inputKey, conflict, conflictKey, src, sourceKey) ==
    [entries |-> es, branch |-> branch, input |-> input, rolled |-> rolled,
     inputKey |-> inputKey, conflict |-> conflict, conflictKey |-> conflictKey,
     src |-> src, sourceKey |-> sourceKey]

\* A conflict resolution that puts the file stored before back at the
\* fingerprint it had.
SourceConflictKeepsOld(es, tree, s) ==
    LET conflictID == es[s.key].sourceID
        l == SourceConflictLoop(es, tree, s.fid, s.key, conflictID, s.key, s.err)
        rolled == IF s.rolls > 0 \/ s.err = "nil" THEN {<<"source", s.fid.path>>} ELSE {}
        rolledC == IF s.err = "nil" /\ ~(l.returned /\ l.inputKey = s.key)
                   THEN {<<"source", conflictID.path>>} ELSE {}
        out(e, b) == Outcome(e, b, s.fid.path, rolled \cup rolledC, l.inputKey,
                             conflictID.path, l.conflictKey, NoPath, l.inputKey)
    IN  IF l.returned
        THEN out(l.entries, "inputError")
        ELSE IF l.inputKey = l.conflictKey /\ l.err = "EOF"
        THEN out(Put(l.entries, l.inputKey, dummy), "duplicates")
        ELSE LET es1 == Put(l.entries, l.inputKey,
                            [sourceID |-> l.inputID, targetID |-> nil])
             IN  IF l.err = "nil" \/ l.err = "EOF"
                 THEN out(Put(es1, s.key,
                              [sourceID |-> l.conflictID, targetID |-> nil]),
                          "resolved")
                 ELSE out(es1, "conflictError")

\* The part of the source visitor after "Else there is a conflict".
SourceConflict(es, tree, s) ==
    LET conflictID == es[s.key].sourceID
        l == SourceConflictLoop(es, tree, s.fid, s.key, conflictID, s.key, s.err)
        rolled == IF s.rolls > 0 \/ s.err = "nil" THEN {<<"source", s.fid.path>>} ELSE {}
        rolledC == IF s.err = "nil" /\ ~(l.returned /\ l.inputKey = s.key)
                   THEN {<<"source", conflictID.path>>} ELSE {}
        out(e, b) == Outcome(e, b, s.fid.path, rolled \cup rolledC, l.inputKey,
                             conflictID.path, l.conflictKey, NoPath, l.inputKey)
    IN  IF l.returned
        THEN out(l.entries, "inputError")
        ELSE IF l.inputKey = l.conflictKey /\ l.err = "EOF"
        THEN out(Put(l.entries, l.inputKey, dummy), "duplicates")
        ELSE LET es1 == Put(l.entries, l.inputKey,
                            [sourceID |-> l.inputID, targetID |-> nil])
             IN  IF l.err = "nil" \/ l.err = "EOF"
                 THEN out(Put(es1, l.conflictKey,
                              [sourceID |-> l.conflictID, targetID |-> nil]),
                          "resolved")
                 ELSE out(es1, "conflictError")

\* A visitor that passes over the files of size 0.
SourceVisitorNonEmpty(es, tree, input) ==
    LET e == newFileEntry(input, tree[input].size)
        s == SkipDummies(es, tree, e.id, e.key, "nil", 0)
        rolled == IF s.rolls > 0 THEN {<<"source", input>>} ELSE {}
        out(x, b) == Outcome(x, b, input, rolled, s.key, NoPath, s.key, NoPath, s.key)
    IN  IF ~tree[input].regular \/ tree[input].size = 0
        THEN Outcome(es, "notRegular", input, {}, e.key, NoPath, e.key, NoPath, e.key)
        ELSE IF s.err = "error"
        THEN out(es, "readError")
        ELSE IF s.key \in DOMAIN es /\ es[s.key].sourceID = nil
        THEN out(es, "duplicate")
        ELSE IF s.key \notin DOMAIN es
        THEN out(Put(es, s.key, [sourceID |-> s.fid, targetID |-> nil]), "stored")
        ELSE SourceConflict(es, tree, s)

\* The visitor of visitSource on the file 'input' of the tree.
SourceVisitor(es, tree, input) ==
    LET e == newFileEntry(input, tree[input].size)
        s == SkipDummies(es, tree, e.id, e.key, "nil", 0)
        rolled == IF s.rolls > 0 THEN {<<"source", input>>} ELSE {}
        out(x, b) == Outcome(x, b, input, rolled, s.key, NoPath, s.key, NoPath, s.key)
    IN  IF ~tree[input].regular
        THEN Outcome(es, "notRegular", input, {}, e.key, NoPath, e.key, NoPath, e.key)
        ELSE IF s.err = "error"
        THEN out(es, "readError")
        ELSE IF s.key \in DOMAIN es /\ es[s.key].sourceID = nil
        THEN out(es, "duplicate")
        ELSE IF s.key \notin DOMAIN es
        THEN out(Put(es, s.key, [sourceID |-> s.fid, targetID |-> nil]), "stored")
        ELSE SourceConflict(es, tree, s)

(***************************************************************************)
(* visitTarget                                                             *)
(***************************************************************************)
\* The conflict loop of visitTarget over the source file, the new target
\* file (input) and the target file matched before (conflict).
RECURSIVE TargetConflictLoop(_, _, _, _, _, _, _, _, _, _)
TargetConflictLoop(es, src, tgt, sourceID, sourceKey, inputID, inputKey,
                   conflictID, conflictKey, err) ==
    IF inputKey = conflictKey /\ inputKey = sourceKey /\ err = "nil"
    THEN LET es1 == Put(es, inputKey, dummy)
             rs == rollingChecksum(sourceID, sourceKey, src)
             ri == rollingChecksum(inputID, inputKey, tgt)
             rc == rollingChecksum(conflictID, conflictKey, tgt)
             st(iID, iKey, cID, cKey, e) ==
                 [entries |-> es1, returned |-> FALSE,
                  sourceID |-> rs.fid, sourceKey |-> rs.key,
                  inputID |-> iID, inputKey |-> iKey,
                  conflictID |-> cID, conflictKey |-> cKey, err |-> e]
         IN  IF rs.err = "error"
             THEN [entries |-> es1, returned |-> TRUE,
                   sourceID |-> sourceID, sourceKey |-> sourceKey,
                   inputID |-> inputID, inputKey |-> inputKey,
                   conflictID |-> conflictID, conflictKey |-> conflictKey,
                   err |-> "error"]
             ELSE IF rc.err = "error"
             THEN st(ri.fid, ri.key, conflictID, conflictKey, "error")
             ELSE IF ri.err = "error"
             THEN st(inputID, inputKey, rc.fid, rc.key, rc.err)
             ELSE TargetConflictLoop(es1, src, tgt, rs.fid, rs.key, ri.fid, ri.key,
                                     rc.fid, rc.key, rc.err)
    ELSE [entries |-> es, returned |-> FALSE,
          sourceID |-> sourceID, sourceKey |-> sourceKey,
          inputID |-> inputID, inputKey |-> inputKey,
          conflictID |-> conflictID, conflictKey |-> conflictKey, err |-> err]

\* A conflict resolution that keeps the candidate that diverges.
TargetConflictSwapped(es, src, tgt, s) ==
    LET sourceID == es[s.key].sourceID
        conflictID == es[s.key].targetID
        l == TargetConflictLoop(es, src, tgt, sourceID, s.key, s.fid, s.key,
                                conflictID, s.key, s.err)
        both == s.err = "nil" /\ ~(l.returned /\ l.sourceKey = s.key)
        rolled == (IF s.rolls > 0 \/ both THEN {<<"target", s.fid.path>>} ELSE {})
                  \cup (IF both THEN {<<"target", conflictID.path>>} ELSE {})
                  \cup (IF s.err = "nil" THEN {<<"source", sourceID.path>>} ELSE {})
        out(e, b) == Outcome(e, b, s.fid.path, rolled, l.inputKey,
                             conflictID.path, l.conflictKey, sourceID.path, l.sourceKey)
        match(t) == [sourceID |-> l.sourceID, targetID |-> t]
    IN  IF l.returned
        THEN out(l.entries, "sourceError")
        ELSE IF l.inputKey = l.sourceKey /\ l.inputKey = l.conflictKey /\ l.err = "EOF"
        THEN out(Put(l.entries, l.sourceKey, match(unsolvable)), "unsolvable")
        ELSE IF l.inputKey = l.sourceKey /\ l.inputKey # l.conflictKey
        THEN out(Put(l.entries, l.sourceKey, match(l.conflictID)), "keepInput")
        ELSE IF l.conflictKey = l.sourceKey /\ l.conflictKey # l.inputKey
        THEN out(Put(l.entries, l.sourceKey, match(l.inputID)), "keepConflict")
        ELSE IF l.conflictKey # l.sourceKey /\ l.inputKey # l.sourceKey
        THEN out(Put(l.entries, l.sourceKey, match(nil)), "dropBoth")
        ELSE out(l.entries, "dropAll")

\* A conflict resolution that gives the source to the last of its duplicates.
TargetConflictLastWins(es, src, tgt, s) ==
    LET sourceID == es[s.key].sourceID
        conflictID == es[s.key].targetID
        l == TargetConflictLoop(es, src, tgt, sourceID, s.key, s.fid, s.key,
                                conflictID, s.key, s.err)
        both == s.err = "nil" /\ ~(l.returned /\ l.sourceKey = s.key)
        rolled == (IF s.rolls > 0 \/ both THEN {<<"target", s.fid.path>>} ELSE {})
                  \cup (IF both THEN {<<"target", conflictID.path>>} ELSE {})
                  \cup (IF s.err = "nil" THEN {<<"source", sourceID.path>>} ELSE {})
        out(e, b) == Outcome(e, b, s.fid.path, rolled, l.inputKey,
                             conflictID.path, l.conflictKey, sourceID.path, l.sourceKey)
        match(t) == [sourceID |-> l.sourceID, targetID |-> t]
    IN  IF l.returned
        THEN out(l.entries, "sourceError")
        ELSE IF l.inputKey = l.sourceKey /\ l.inputKey = l.conflictKey /\ l.err = "EOF"
        THEN out(Put(l.entries, l.sourceKey, match(l.inputID)), "unsolvable")
        ELSE IF l.inputKey = l.sourceKey /\ l.inputKey # l.conflictKey
        THEN out(Put(l.entries, l.sourceKey, match(l.inputID)), "keepInput")
        ELSE IF l.conflictKey = l.sourceKey /\ l.conflictKey # l.inputKey
        THEN out(Put(l.entries, l.sourceKey, match(l.conflictID)), "keepConflict")
        ELSE IF l.conflictKey # l.sourceKey /\ l.inputKey # l.sourceKey
        THEN out(Put(l.entries, l.sourceKey, match(nil)), "dropBoth")
        ELSE out(l.entries, "dropAll")

\* A conflict resolution that drops all entries on the read error of the
\* target matched before.
TargetConflictStrict(es, src, tgt, s) ==
    LET sourceID == es[s.key].sourceID
        conflictID == es[s.key].targetID
        l == TargetConflictLoop(es, src, tgt, sourceID, s.key, s.fid, s.key,
                                conflictID, s.key, s.err)
        both == s.err = "nil" /\ ~(l.returned /\ l.sourceKey = s.key)
        rolled == (IF s.rolls > 0 \/ both THEN {<<"target", s.fid.path>>} ELSE {})
                  \cup (IF both THEN {<<"target", conflictID.path>>} ELSE {})
                  \cup (IF s.err = "nil" THEN {<<"source", sourceID.path>>} ELSE {})
        out(e, b) == Outcome(e, b, s.fid.path, rolled, l.inputKey,
                             conflictID.path, l.conflictKey, sourceID.path, l.sourceKey)
        match(t) == [sourceID |-> l.sourceID, targetID |-> t]
    IN  IF l.returned
        THEN out(l.entries, "sourceError")
        ELSE IF l.err = "error"
        THEN out(l.entries, "dropAll")
        ELSE IF l.inputKey = l.sourceKey /\ l.inputKey = l.conflictKey /\ l.err = "EOF"
        THEN out(Put(l.entries, l.sourceKey, match(unsolvable)), "unsolvable")
        ELSE IF l.inputKey = l.sourceKey /\ l.inputKey # l.conflictKey
        THEN out(Put(l.entries, l.sourceKey, match(l.inputID)), "keepInput")
        ELSE IF l.conflictKey = l.sourceKey /\ l.conflictKey # l.inputKey
        THEN out(Put(l.entries, l.sourceKey, match(l.conflictID)), "keepConflict")
        ELSE IF l.conflictKey # l.sourceKey /\ l.inputKey # l.sourceKey
        THEN out(Put(l.entries, l.sourceKey, match(nil)), "dropBoth")
        ELSE out(l.entries, "dropAll")

\* A conflict resolution that keeps the source after its read error.
TargetConflictSourceKept(es, src, tgt, s) ==
    LET sourceID == es[s.key].sourceID
        conflictID == es[s.key].targetID
        l == TargetConflictLoop(es, src, tgt, sourceID, s.key, s.fid, s.key,
                                conflictID, s.key, s.err)
        both == s.err = "nil" /\ ~(l.returned /\ l.sourceKey = s.key)
        rolled == (IF s.rolls > 0 \/ both THEN {<<"target", s.fid.path>>} ELSE {})
                  \cup (IF both THEN {<<"target", conflictID.path>>} ELSE {})
                  \cup (IF s.err = "nil" THEN {<<"source", sourceID.path>>} ELSE {})
        out(e, b) == Outcome(e, b, s.fid.path, rolled, l.inputKey,
                             conflictID.path, l.conflictKey, sourceID.path, l.sourceKey)
        match(t) == [sourceID |-> l.sourceID, targetID |-> t]
    IN  IF l.returned
        THEN out(Put(l.entries, l.sourceKey, match(nil)), "sourceError")
        ELSE IF l.inputKey = l.sourceKey /\ l.inputKey = l.conflictKey /\ l.err = "EOF"
        THEN out(Put(l.entries, l.sourceKey, match(unsolvable)), "unsolvable")
        ELSE IF l.inputKey = l.sourceKey /\ l.inputKey # l.conflictKey
        THEN out(Put(l.entries, l.sourceKey, match(l.inputID)), "keepInput")
        ELSE IF l.conflictKey = l.sourceKey /\ l.conflictKey # l.inputKey
        THEN out(Put(l.entries, l.sourceKey, match(l.conflictID)), "keepConflict")
        ELSE IF l.conflictKey # l.sourceKey /\ l.inputKey # l.sourceKey
        THEN out(Put(l.entries, l.sourceKey, match(nil)), "dropBoth")
        ELSE out(l.entries, "dropAll")

\* A conflict resolution that keeps the file visited when both candidates
\* have diverged.
TargetConflictKeepsLast(es, src, tgt, s) ==
    LET sourceID == es[s.key].sourceID
        conflictID == es[s.key].targetID
        l == TargetConflictLoop(es, src, tgt, sourceID, s.key, s.fid, s.key,
                                conflictID, s.key, s.err)
        both == s.err = "nil" /\ ~(l.returned /\ l.sourceKey = s.key)
        rolled == (IF s.rolls > 0 \/ both THEN {<<"target", s.fid.path>>} ELSE {})
                  \cup (IF both THEN {<<"target", conflictID.path>>} ELSE {})
                  \cup (IF s.err = "nil" THEN {<<"source", sourceID.path>>} ELSE {})
        out(e, b) == Outcome(e, b, s.fid.path, rolled, l.inputKey,
                             conflictID.path, l.conflictKey, sourceID.path, l.sourceKey)
        match(t) == [sourceID |-> l.sourceID, targetID |-> t]
    IN  IF l.returned
        THEN out(l.entries, "sourceError")
        ELSE IF l.inputKey = l.sourceKey /\ l.inputKey = l.conflictKey /\ l.err = "EOF"
        THEN out(Put(l.entries, l.sourceKey, match(unsolvable)), "unsolvable")
        ELSE IF l.inputKey = l.sourceKey /\ l.inputKey # l.conflictKey
        THEN out(Put(l.entries, l.sourceKey, match(l.inputID)), "keepInput")
        ELSE IF l.conflictKey = l.sourceKey /\ l.conflictKey # l.inputKey
        THEN out(Put(l.entries, l.sourceKey, match(l.conflictID)), "keepConflict")
        ELSE IF l.conflictKey # l.sourceKey /\ l.inputKey # l.sourceKey
        THEN out(Put(l.entries, l.sourceKey, match(l.inputID)), "dropBoth")
        ELSE out(l.entries, "dropAll")

\* A conflict resolution that leaves the entry of the conflict where it was.
TargetConflictKeepsOld(es, src, tgt, s) ==
    LET sourceID == es[s.key].sourceID
        conflictID == es[s.key].targetID
        l == TargetConflictLoop(es, src, tgt, sourceID, s.key, s.fid, s.key,
                                conflictID, s.key, s.err)
        both == s.err = "nil" /\ ~(l.returned /\ l.sourceKey = s.key)
        rolled == (IF s.rolls > 0 \/ both THEN {<<"target", s.fid.path>>} ELSE {})
                  \cup (IF both THEN {<<"target", conflictID.path>>} ELSE {})
                  \cup (IF s.err = "nil" THEN {<<"source", sourceID.path>>} ELSE {})
        out(e, b) == Outcome(e, b, s.fid.path, rolled, l.inputKey,
                             conflictID.path, l.conflictKey, sourceID.path, l.sourceKey)
        match(t) == [sourceID |-> l.sourceID, targetID |-> t]
    IN  IF l.returned
        THEN out(l.entries, "sourceError")
        ELSE IF l.inputKey = l.sourceKey /\ l.inputKey = l.conflictKey /\ l.err = "EOF"
        THEN out(Put(l.entries, l.sourceKey, match(unsolvable)), "unsolvable")
        ELSE IF l.inputKey = l.sourceKey /\ l.inputKey # l.conflictKey
        THEN out(Put(Put(l.entries, s.key, es[s.key]), l.sourceKey, match(l.inputID)),
                 "keepInput")
        ELSE IF l.conflictKey = l.sourceKey /\ l.conflictKey # l.inputKey
        THEN out(Put(l.entries, l.sourceKey, match(l.conflictID)), "keepConflict")
        ELSE IF l.conflictKey # l.sourceKey /\ l.inputKey # l.sourceKey
        THEN out(Put(l.entries, l.sourceKey, match(nil)), "dropBoth")
        ELSE out(l.entries, "dropAll")

\* A conflict resolution that gives the source to the first of its duplicates.
TargetConflictFirstWins(es, src, tgt, s) ==
    LET sourceID == es[s.key].sourceID
        conflictID == es[s.key].targetID
        l == TargetConflictLoop(es, src, tgt, sourceID, s.key, s.fid, s.key,
                                conflictID, s.key, s.err)
        both == s.err = "nil" /\ ~(l.returned /\ l.sourceKey = s.key)
        rolled == (IF s.rolls > 0 \/ both THEN {<<"target", s.fid.path>>} ELSE {})
                  \cup (IF both THEN {<<"target", conflictID.path>>} ELSE {})
                  \cup (IF s.err = "nil" THEN {<<"source", sourceID.path>>} ELSE {})
        out(e, b) == Outcome(e, b, s.fid.path, rolled, l.inputKey,
                             conflictID.path, l.conflictKey, sourceID.path, l.sourceKey)
        match(t) == [sourceID |-> l.sourceID, targetID |-> t]
    IN  IF l.returned
        THEN out(l.entries, "sourceError")
        ELSE IF l.inputKey = l.sourceKey /\ l.inputKey = l.conflictKey /\ l.err = "EOF"
        THEN out(Put(l.entries, l.sourceKey, match(l.conflictID)), "unsolvable")
        ELSE IF l.inputKey = l.sourceKey /\ l.inputKey # l.conflictKey
        THEN out(Put(l.entries, l.sourceKey, match(l.inputID)), "keepInput")
        ELSE IF l.conflictKey = l.sourceKey /\ l.conflictKey # l.inputKey
        THEN out(Put(l.entries, l.sourceKey, match(l.conflictID)), "keepConflict")
        ELSE IF l.conflictKey # l.sourceKey /\ l.inputKey # l.sourceKey
        THEN out(Put(l.entries, l.sourceKey, match(nil)), "dropBoth")
        ELSE out(l.entries, "dropAll")

\* The part of the target visitor after "Else there is a conflict".
TargetConflict(es, src, tgt, s) ==
    LET sourceID == es[s.key].sourceID
        conflictID == es[s.key].targetID
        l == TargetConflictLoop(es, src, tgt, sourceID, s.key, s.fid, s.key,
                                conflictID, s.key, s.err)
        both == s.err = "nil" /\ ~(l.returned /\ l.sourceKey = s.key)
        rolled == (IF s.rolls > 0 \/ both THEN {<<"target", s.fid.path>>} ELSE {})
                  \cup (IF both THEN {<<"target", conflictID.path>>} ELSE {})
                  \cup (IF s.err = "nil" THEN {<<"source", sourceID.path>>} ELSE {})
        out(e, b) == Outcome(e, b, s.fid.path, rolled, l.inputKey,
                             conflictID.path, l.conflictKey, sourceID.path, l.sourceKey)
        match(t) == [sourceID |-> l.sourceID, targetID |-> t]
    IN  IF l.returned
        THEN out(l.entries, "sourceError")
        ELSE IF l.inputKey = l.sourceKey /\ l.inputKey = l.conflictKey /\ l.err = "EOF"
        THEN out(Put(l.entries, l.sourceKey, match(unsolvable)), "unsolvable")
        ELSE IF l.inputKey = l.sourceKey /\ l.inputKey # l.conflictKey
        THEN out(Put(l.entries, l.sourceKey, match(l.inputID)), "keepInput")
        ELSE IF l.conflictKey = l.sourceKey /\ l.conflictKey # l.inputKey
        THEN out(Put(l.entries, l.sourceKey, match(l.conflictID)), "keepConflict")
        ELSE IF l.conflictKey # l.sourceKey /\ l.inputKey # l.sourceKey
        THEN out(Put(l.entries, l.sourceKey, match(nil)), "dropBoth")
        ELSE out(l.entries, "dropAll")

\* A visitor that records the target files that match nothing.
TargetVisitorGreedy(es, src, tgt, input) ==
    LET e == newFileEntry(input, tgt[input].size)
        s == SkipDummies(es, tgt, e.id, e.key, "nil", 0)
        rolled == IF s.rolls > 0 THEN {<<"target", input>>} ELSE {}
        v == es[s.key]
        out(x, b) == Outcome(x, b, input, rolled, s.key, NoPath, s.key, NoPath, s.key)
    IN  IF ~tgt[input].regular
        THEN Outcome(es, "notRegular", input, {}, e.key, NoPath, e.key, NoPath, e.key)
        ELSE IF s.err = "error"
        THEN out(es, "readError")
        ELSE IF s.key \in DOMAIN es /\ v.sourceID = nil
        THEN out(es, "duplicateMatch")
        ELSE IF s.key \in DOMAIN es /\ v.targetID # nil /\ v.targetID = unsolvable
        THEN out(es, "rejected")
        ELSE IF s.key \notin DOMAIN es
        THEN out(Put(es, s.key, [sourceID |-> nil, targetID |-> s.fid]), "noMatch")
        ELSE IF v.targetID = nil
        THEN out(Put(es, s.key, [sourceID |-> v.sourceID, targetID |-> s.fid]),
                 "firstMatch")
        ELSE TargetConflict(es, src, tgt, s)

\* A visitor that takes a dummy entry for an entry without a target.
TargetVisitorAttaches(es, src, tgt, input) ==
    LET e == newFileEntry(input, tgt[input].size)
        s == SkipDummies(es, tgt, e.id, e.key, "nil", 0)
        rolled == IF s.rolls > 0 THEN {<<"target", input>>} ELSE {}
        v == es[s.key]
        out(x, b) == Outcome(x, b, input, rolled, s.key, NoPath, s.key, NoPath, s.key)
    IN  IF ~tgt[input].regular
        THEN Outcome(es, "notRegular", input, {}, e.key, NoPath, e.key, NoPath, e.key)
        ELSE IF s.err = "error"
        THEN out(es, "readError")
        ELSE IF s.key \in DOMAIN es /\ v.targetID # nil /\ v.targetID = unsolvable
        THEN out(es, "rejected")
        ELSE IF s.key \notin DOMAIN es
        THEN out(es, "noMatch")
        ELSE IF v.targetID = nil
        THEN out(Put(es, s.key, [sourceID |-> v.sourceID, targetID |-> s.fid]),
                 "firstMatch")
        ELSE TargetConflict(es, src, tgt, s)

\* The visitor of visitTarget on the file 'input' of the TARGET tree.
TargetVisitor(es, src, tgt, input) ==
    LET e == newFileEntry(input, tgt[input].size)
        s == SkipDummies(es, tgt, e.id, e.key, "nil", 0)
        rolled == IF s.rolls > 0 THEN {<<"target", input>>} ELSE {}
        v == es[s.key]
        out(x, b) == Outcome(x, b, input, rolled, s.key, NoPath, s.key, NoPath, s.key)
    IN  IF ~tgt[input].regular
        THEN Outcome(es, "notRegular", input, {}, e.key, NoPath, e.key, NoPath, e.key)
        ELSE IF s.err = "error"
        THEN out(es, "readError")
        ELSE IF s.key \in DOMAIN es /\ v.sourceID = nil
        THEN out(es, "duplicateMatch")
        ELSE IF s.key \in DOMAIN es /\ v.targetID # nil /\ v.targetID = unsolvable
        THEN out(es, "rejected")
        ELSE IF s.key \notin DOMAIN es
        THEN out(es, "noMatch")
        ELSE IF v.targetID = nil
        THEN out(Put(es, s.key, [sourceID |-> v.sourceID, targetID |-> s.fid]),
                 "firstMatch")
        ELSE TargetConflict(es, src, tgt, s)

(***************************************************************************)
(* main: the two walks and the rename relation                             *)
(***************************************************************************)
\* The name ioutil.TempFile(".", APPLICATION) returns for the k-th temporary
\* file: a name no file has.  The number says nothing of the place of the
\* name in the lexical order of filepath.Walk: "hsync<digits>" can come
\* before, between or after the other names of TARGET.
TmpName(k) == 100 + k

IsTmp(p) == p > 100

\* The files the walk of this run that is under way (of SOURCE in
\* visitSource, of TARGET in visitTarget) has called the visitor on.
Seen ==
    LET op == IF pc = "visitSource" THEN "source" ELSE "target"
    IN  {log[i].input : i \in {j \in 1..Len(log) : log[j].op = op /\ log[j].run = run}}

\* The files of a tree the walk has still to visit.
Unvisited(tree) == DOMAIN tree \ Seen

\* What filepath.Walk can pass to the visitor next, as the path visited and
\* the tree known then.  In the first run a tree is known as far as it has
\* been walked: the next file is any file of 'files' at any later path of
\* 'paths'.  The second run walks the trees the first run has left: the
\* files the first run knew in the order of their paths, and a temporary
\* file at any place of this order.
WalkNext(tree, paths, files) ==
    IF run = 1
    THEN {[path |-> p, tree |-> Put(tree, p, f)] :
              p \in {q \in paths : q > cursor}, f \in files}
    ELSE {[path |-> p, tree |-> tree] :
              p \in {q \in Unvisited(tree) :
                        IsTmp(q) \/ \A r \in Unvisited(tree) : IsTmp(r) \/ q <= r}}

\* filepath.Walk can return: the tree has no file left to visit.
WalkOver(tree) == IF run = 1 THEN TRUE ELSE Unvisited(tree) = {}

\* The record the log keeps of a visit: its outcome without the table.
VisitRecord(op, o) ==
    [op |-> op, run |-> run, branch |-> o.branch, input |-> o.input,
     rolled |-> o.rolled, inputKey |-> o.inputKey, conflict |-> o.conflict,
     conflictKey |-> o.conflictKey, src |-> o.src, sourceKey |-> o.sourceKey]

\* filepath.Walk of visitSource calls the visitor on the next file of SOURCE.
VisitSource(paths, files) ==
    /\ pc = "visitSource"
    /\ \E w \in WalkNext(source, paths, files) :
          LET o == SourceVisitor(entries, w.tree, w.path)
          IN  /\ source' = w.tree
              /\ entries' = o.entries
              /\ cursor' = w.path
              /\ log' = Append(log, VisitRecord("source", o))
    /\ UNCHANGED <<target, renameOps, reverseOps, clobber, process, pc,
                   oldpath, newpath, cycleMarker, ranged, tmps, run>>

\* visitSource returns and main calls visitTarget.
SourceWalked ==
    /\ pc = "visitSource"
    /\ WalkOver(source)
    /\ pc' = "visitTarget"
    /\ cursor' = NoPath
    /\ UNCHANGED <<source, target, entries, renameOps, reverseOps, clobber, process,
                   oldpath, newpath, cycleMarker, ranged, tmps, run, log>>

\* filepath.Walk of visitTarget calls the visitor on the next file of TARGET.
VisitTarget(paths, files) ==
    /\ pc = "visitTarget"
    /\ \E w \in WalkNext(target, paths, files) :
          LET o == TargetVisitor(entries, source, w.tree, w.path)
          IN  /\ target' = w.tree
              /\ entries' = o.entries
              /\ cursor' = w.path
              /\ log' = Append(log, VisitRecord("target", o))
    /\ UNCHANGED <<source, renameOps, reverseOps, clobber, process, pc,
                   oldpath, newpath, cycleMarker, ranged, tmps, run>>

\* visitTarget returns.
TargetWalked ==
    /\ pc = "visitTarget"
    /\ WalkOver(target)
    /\ pc' = "build"
    /\ cursor' = NoPath
    /\ UNCHANGED <<source, target, entries, renameOps, reverseOps, clobber, process,
                   oldpath, newpath, cycleMarker, ranged, tmps, run, log>>

\* The visitor of visitSource is called on a file of SOURCE it has not been
\* called on, whatever the place of the file in the order of the walk;
\* 'ranged' holds the files the walk has produced.
VisitSourceAny ==
    /\ pc = "visitSource"
    /\ \E p \in DOMAIN source \ ranged :
          /\ entries' = SourceVisitor(entries, source, p).entries
          /\ cursor' = p
          /\ ranged' = ranged \cup {p}
    /\ UNCHANGED <<source, target, renameOps, reverseOps, clobber, process, pc,
                   oldpath, newpath, cycleMarker, tmps, run, log>>

\* visitSource returns once the walk has produced every file of SOURCE.
SourceWalkedAny ==
    /\ pc = "visitSource"
    /\ DOMAIN source \ ranged = {}
    /\ pc' = "visitTarget"
    /\ cursor' = NoPath
    /\ ranged' = {}
    /\ UNCHANGED <<source, target, entries, renameOps, reverseOps, clobber, process,
                   oldpath, newpath, cycleMarker, tmps, run, log>>

\* The visitor of visitTarget is called on a file of TARGET it has not been
\* called on, whatever the place of the file in the order of the walk.
VisitTargetAny ==
    /\ pc = "visitTarget"
    /\ \E p \in DOMAIN target \ ranged :
          /\ entries' = TargetVisitor(entries, source, target, p).entries
          /\ cursor' = p
          /\ ranged' = ranged \cup {p}
    /\ UNCHANGED <<source, target, renameOps, reverseOps, clobber, process, pc,
                   oldpath, newpath, cycleMarker, tmps, run, log>>

\* visitTarget returns once the walk has produced every file of TARGET;
\* 'cursor' stays at the file visited last.
TargetWalkedAny ==
    /\ pc = "visitTarget"
    /\ DOMAIN target \ ranged = {}
    /\ pc' = "build"
    /\ ranged' = {}
    /\ UNCHANGED <<source, target, entries, renameOps, reverseOps, clobber, process,
                   cursor, oldpath, newpath, cycleMarker, tmps, run, log>>

Range(m) == {m[x] : x \in DOMAIN m}

\* The entries with a target, those with the path of their source included.
RenamedUnfiltered(es) ==
    {v \in Range(es) : v.targetID # nil /\ v.targetID # unsolvable}

\* The entries main's loop over 'entries' turns into rename operations.
Renamed(es) ==
    {v \in Range(es) : v.targetID # nil /\ v.targetID # unsolvable
                        /\ v.targetID.path # v.sourceID.path}

\* The orders in which a range loop can yield the values vs.
Orders(vs) ==
    {o \in [1..Cardinality(vs) -> vs] : \A i, j \in DOMAIN o : o[i] = o[j] => i = j}

\* A relation whose reverse map is stored in the direction of the forward one.
RECURSIVE RelationForward(_, _)
RelationForward(order, n) ==
    IF n = 0
    THEN [renameOps |-> EmptyMap, reverseOps |-> EmptyMap]
    ELSE LET r == RelationForward(order, n - 1)
             v == order[n]
         IN  [renameOps |-> Put(r.renameOps, v.targetID.path, v.sourceID.path),
              reverseOps |-> Put(r.reverseOps, v.targetID.path, v.sourceID.path)]

\* renameOps and reverseOps after the first n values of 'order' are stored:
\* when two values share a key, the one stored last stays.
RECURSIVE Relation(_, _)
Relation(order, n) ==
    IF n = 0
    THEN [renameOps |-> EmptyMap, reverseOps |-> EmptyMap]
    ELSE LET r == Relation(order, n - 1)
             v == order[n]
         IN  [renameOps |-> Put(r.renameOps, v.targetID.path, v.sourceID.path),
              reverseOps |-> Put(r.reverseOps, v.sourceID.path, v.targetID.path)]

\* main reads v.sourceID.path of an entry with a target and no source.
NilDereference(es) == \E v \in Range(es) : v.targetID # nil /\ v.targetID # unsolvable
                                            /\ v.sourceID = nil

\* main, "for _, v := range entries": renameOps and reverseOps are built; then
\* the renames are processed (-p) or previewed.
BuildRelation ==
    /\ pc = "build"
    /\ IF NilDereference(entries)
       THEN /\ pc' = "panic"
            /\ UNCHANGED <<renameOps, reverseOps>>
       ELSE /\ \E order \in Orders(Renamed(entries)) :
                 LET r == Relation(order, Len(order))
                 IN  /\ renameOps' = r.renameOps
                     /\ reverseOps' = r.reverseOps
            /\ pc' = IF process THEN "range" ELSE "exit"
    /\ UNCHANGED <<source, target, entries, clobber, process, cursor,
                   oldpath, newpath, cycleMarker, ranged, tmps, run, log>>

(***************************************************************************)
(* processRenames                                                          *)
(***************************************************************************)
\* m[k] of a Go map[string]string: "" when k is not a key.
Lookup(m, k) == IF k \in DOMAIN m THEN m[k] ELSE NoPath

\* The empty file ioutil.TempFile creates.
EmptyFile == File(0, <<>>, 0)

\* The tree after a successful os.Rename(old, new).
Rename(tree, old, new) == Put(Delete(tree, old), new, tree[old])

\* The outcomes os.Rename(old, new) can have: it fails when old does not
\* exist, and may fail (permissions, devices) when it does.
RenameOutcomes(tree, old) == IF old \in DOMAIN tree THEN {"renamed", "failed"} ELSE {"failed"}

\* The record the log keeps of a rename; 'replaced' tells that a file that
\* was at 'new' has been overwritten.
RenameRecord(old, new, result, replaced) ==
    [op |-> "rename", run |-> run, old |-> old, new |-> new, result |-> result,
     replaced |-> replaced]

\* "for oldpath, newpath := range renameOps": the loop produces a key it has
\* not produced yet; a pair with oldpath == newpath is skipped.
RangeNext ==
    /\ pc = "range"
    /\ \E o \in DOMAIN renameOps \ ranged :
          /\ oldpath' = o
          /\ newpath' = renameOps[o]
          /\ ranged' = ranged \cup {o}
          /\ IF o = renameOps[o]
             THEN UNCHANGED <<pc, cycleMarker>>
             ELSE pc' = "forward" /\ cycleMarker' = o
    /\ UNCHANGED <<source, target, entries, renameOps, reverseOps, clobber, process,
                   cursor, tmps, run, log>>

\* The range loop has produced every key: processRenames and main return.
RangeDone ==
    /\ pc = "range"
    /\ DOMAIN renameOps \ ranged = {}
    /\ pc' = "exit"
    /\ UNCHANGED <<source, target, entries, renameOps, reverseOps, clobber, process,
                   cursor, oldpath, newpath, cycleMarker, ranged, tmps, run, log>>

\* One iteration of "Go forward to the end of the chain or the cycle".
ForwardStep ==
    /\ pc = "forward"
    /\ newpath # cycleMarker
    /\ newpath \in DOMAIN renameOps
    /\ oldpath' = newpath
    /\ newpath' = renameOps[newpath]
    /\ UNCHANGED <<source, target, entries, renameOps, reverseOps, clobber, process,
                   pc, cursor, cycleMarker, ranged, tmps, run, log>>

\* A forward loop that may stop before the end of the chain.
ForwardEndEarly ==
    /\ pc = "forward"
    /\ pc' = IF cycleMarker = newpath THEN "cycle" ELSE "backward"
    /\ UNCHANGED <<source, target, entries, renameOps, reverseOps, clobber, process,
                   cursor, oldpath, newpath, cycleMarker, ranged, tmps, run, log>>

\* The forward loop ends: at the end of a chain, or back at cycleMarker.
ForwardEnd ==
    /\ pc = "forward"
    /\ newpath = cycleMarker \/ newpath \notin DOMAIN renameOps
    /\ pc' = IF cycleMarker = newpath THEN "cycle" ELSE "backward"
    /\ UNCHANGED <<source, target, entries, renameOps, reverseOps, clobber, process,
                   cursor, oldpath, newpath, cycleMarker, ranged, tmps, run, log>>

\* A cycle break that plugs the temporary file behind oldpath instead of
\* behind cycleMarker.
BreakCycleMisplugged ==
    /\ pc = "cycle"
    /\ LET tmp == TmpName(tmps + 1)
           created == Put(target, tmp, EmptyFile)
           reversed == Put(reverseOps, oldpath, tmp)
       IN  /\ tmps' = tmps + 1
           /\ \E result \in RenameOutcomes(created, oldpath) :
                 /\ target' = IF result = "renamed" THEN Rename(created, oldpath, tmp)
                                                     ELSE created
                 /\ log' = Append(log, RenameRecord(oldpath, tmp, result, FALSE))
           /\ reverseOps' = reversed
           /\ renameOps' = Delete(renameOps, oldpath)
           /\ ranged' = ranged \ {oldpath}
           /\ newpath' = oldpath
           /\ oldpath' = Lookup(reversed, oldpath)
    /\ pc' = "backward"
    /\ UNCHANGED <<source, entries, clobber, process, cursor, cycleMarker, run>>

\* A cycle break that renames the file the walk started from.
BreakCycleAtStart ==
    /\ pc = "cycle"
    /\ LET tmp == TmpName(tmps + 1)
           created == Put(target, tmp, EmptyFile)
           reversed == Put(reverseOps, cycleMarker, tmp)
       IN  /\ tmps' = tmps + 1
           /\ \E result \in RenameOutcomes(created, cycleMarker) :
                 /\ target' = IF result = "renamed" THEN Rename(created, cycleMarker, tmp)
                                                     ELSE created
                 /\ log' = Append(log, RenameRecord(cycleMarker, tmp, result, FALSE))
           /\ reverseOps' = reversed
           /\ renameOps' = Delete(renameOps, oldpath)
           /\ ranged' = ranged \ {oldpath}
           /\ newpath' = oldpath
           /\ oldpath' = Lookup(reversed, oldpath)
    /\ pc' = "backward"
    /\ UNCHANGED <<source, entries, clobber, process, cursor, cycleMarker, run>>

\* A cycle break that leaves the edge of the file it moves in renameOps.
BreakCycleKeepsEdge ==
    /\ pc = "cycle"
    /\ LET tmp == TmpName(tmps + 1)
           created == Put(target, tmp, EmptyFile)
           reversed == Put(reverseOps, cycleMarker, tmp)
       IN  /\ tmps' = tmps + 1
           /\ \E result \in RenameOutcomes(created, oldpath) :
                 /\ target' = IF result = "renamed" THEN Rename(created, oldpath, tmp)
                                                     ELSE created
                 /\ log' = Append(log, RenameRecord(oldpath, tmp, result, FALSE))
           /\ reverseOps' = reversed
           /\ newpath' = oldpath
           /\ oldpath' = Lookup(reversed, oldpath)
    /\ pc' = "backward"
    /\ UNCHANGED <<source, entries, renameOps, clobber, process, cursor, cycleMarker,
                   ranged, run>>

\* "If cycle, break it down to a chain": oldpath is renamed to a temporary
\* file, which becomes the reverse of cycleMarker.
BreakCycle ==
    /\ pc = "cycle"
    /\ LET tmp == TmpName(tmps + 1)
           created == Put(target, tmp, EmptyFile)
           reversed == Put(reverseOps, cycleMarker, tmp)
       IN  /\ tmps' = tmps + 1
           /\ \E result \in RenameOutcomes(created, oldpath) :
                 /\ target' = IF result = "renamed" THEN Rename(created, oldpath, tmp)
                                                     ELSE created
                 /\ log' = Append(log, RenameRecord(oldpath, tmp, result, FALSE))
           /\ reverseOps' = reversed
           /\ renameOps' = Delete(renameOps, oldpath)
           /\ ranged' = ranged \ {oldpath}
           /\ newpath' = oldpath
           /\ oldpath' = Lookup(reversed, oldpath)
    /\ pc' = "backward"
    /\ UNCHANGED <<source, entries, clobber, process, cursor, cycleMarker, run>>

\* An existence check that never finds the destination.
ExistsNever(tree, clob, new) == FALSE

\* The 'exists' of the backward loop: os.Stat(newpath) when clobber is off.
Exists(tree, clob, new) == ~clob /\ new \in DOMAIN tree

\* A backward loop that leaves the edges it has processed in renameOps.
BackwardStepKeepsEdge ==
    /\ pc = "backward"
    /\ oldpath # NoPath
    /\ \/ \* os.MkdirAll fails: log.Println(err), as for a failed rename. It
          \* cannot fail on the directory of a file that exists.
          /\ newpath \notin DOMAIN target
          /\ log' = Append(log, RenameRecord(oldpath, newpath, "failed", FALSE))
          /\ UNCHANGED target
       \/ /\ Exists(target, clobber, newpath)
          /\ log' = Append(log, RenameRecord(oldpath, newpath, "skipped", FALSE))
          /\ UNCHANGED target
       \/ /\ ~Exists(target, clobber, newpath)
          /\ \E result \in RenameOutcomes(target, oldpath) :
                /\ target' = IF result = "renamed" THEN Rename(target, oldpath, newpath)
                                                    ELSE target
                /\ log' = Append(log, RenameRecord(oldpath, newpath, result,
                                     result = "renamed" /\ newpath \in DOMAIN target))
    /\ newpath' = oldpath
    /\ oldpath' = Lookup(reverseOps, oldpath)
    /\ UNCHANGED <<source, entries, renameOps, reverseOps, clobber, process, pc,
                   cursor, cycleMarker, ranged, tmps, run>>

\* A backward loop that gives up the renames at the first one that fails.
BackwardStepAbort ==
    /\ pc = "backward"
    /\ oldpath # NoPath
    /\ \/ \* os.MkdirAll fails: log.Println(err), as for a failed rename. It
          \* cannot fail on the directory of a file that exists.
          /\ newpath \notin DOMAIN target
          /\ log' = Append(log, RenameRecord(oldpath, newpath, "failed", FALSE))
          /\ UNCHANGED target
       \/ /\ Exists(target, clobber, newpath)
          /\ log' = Append(log, RenameRecord(oldpath, newpath, "skipped", FALSE))
          /\ UNCHANGED target
       \/ /\ ~Exists(target, clobber, newpath)
          /\ \E result \in RenameOutcomes(target, oldpath) :
                /\ target' = IF result = "renamed" THEN Rename(target, oldpath, newpath)
                                                    ELSE target
                /\ log' = Append(log, RenameRecord(oldpath, newpath, result,
                                     result = "renamed" /\ newpath \in DOMAIN target))
    /\ renameOps' = Delete(renameOps, oldpath)
    /\ ranged' = ranged \ {oldpath}
    /\ newpath' = oldpath
    /\ oldpath' = Lookup(reverseOps, oldpath)
    /\ pc' = IF log'[Len(log')].result = "failed" THEN "exit" ELSE pc
    /\ UNCHANGED <<source, entries, reverseOps, clobber, process, cursor,
                   cycleMarker, tmps, run>>

\* One iteration of "Process the chain of renames".
BackwardStep ==
    /\ pc = "backward"
    /\ oldpath # NoPath
    /\ \/ \* os.MkdirAll fails: log.Println(err), as for a failed rename. It
          \* cannot fail on the directory of a file that exists.
          /\ newpath \notin DOMAIN target
          /\ log' = Append(log, RenameRecord(oldpath, newpath, "failed", FALSE))
          /\ UNCHANGED target
       \/ /\ Exists(target, clobber, newpath)
          /\ log' = Append(log, RenameRecord(oldpath, newpath, "skipped", FALSE))
          /\ UNCHANGED target
       \/ /\ ~Exists(target, clobber, newpath)
          /\ \E result \in RenameOutcomes(target, oldpath) :
                /\ target' = IF result = "renamed" THEN Rename(target, oldpath, newpath)
                                                    ELSE target
                /\ log' = Append(log, RenameRecord(oldpath, newpath, result,
                                     result = "renamed" /\ newpath \in DOMAIN target))
    /\ renameOps' = Delete(renameOps, oldpath)
    /\ ranged' = ranged \ {oldpath}
    /\ newpath' = oldpath
    /\ oldpath' = Lookup(reverseOps, oldpath)
    /\ UNCHANGED <<source, entries, reverseOps, clobber, process, pc, cursor,
                   cycleMarker, tmps, run>>

\* The backward loop ends (oldpath == ""): back to the range loop.
BackwardEnd ==
    /\ pc = "backward"
    /\ oldpath = NoPath
    /\ pc' = "range"
    /\ UNCHANGED <<source, target, entries, renameOps, reverseOps, clobber, process,
                   cursor, oldpath, newpath, cycleMarker, ranged, tmps, run, log>>

\* ioutil.TempFile fails: log.Fatal.
TempFileFails ==
    /\ pc = "cycle"
    /\ pc' = "fatal"
    /\ UNCHANGED <<source, target, entries, renameOps, reverseOps, clobber, process,
                   cursor, oldpath, newpath, cycleMarker, ranged, tmps, run, log>>

\* The program is run a second time on the same SOURCE and on TARGET as the
\* first run left it, without -p.
RunAgain ==
    /\ pc = "exit"
    /\ run = 1
    /\ run' = 2
    /\ pc' = "visitSource"
    /\ process' = FALSE
    /\ entries' = EmptyMap
    /\ renameOps' = EmptyMap
    /\ reverseOps' = EmptyMap
    /\ ranged' = {}
    /\ cursor' = NoPath
    /\ oldpath' = NoPath
    /\ newpath' = NoPath
    /\ cycleMarker' = NoPath
    /\ UNCHANGED <<source, target, clobber, tmps, log>>

(***************************************************************************)
(* main, replay mode: SOURCE is a preview document                         *)
(***************************************************************************)
\* The path "p/x": a path below the path p.
Below(p) == 10 + p

IsBelow(q) == q > 10 /\ q <= 100

\* The error of os.Stat(TARGET + SEPARATOR + p): a path below a regular file
\* is not a directory entry (ENOTDIR), any other missing path does not exist
\* (ENOENT).
Stat(tree, p) ==
    IF p \in DOMAIN tree THEN "nil"
    ELSE IF IsBelow(p) /\ (p - 10) \in DOMAIN tree /\ tree[p - 10].regular THEN "ENOTDIR"
    ELSE "ENOENT"

\* err != nil && os.IsNotExist(err)
IsNotExist(err) == err = "ENOENT"

\* The record the log keeps of json.Unmarshal(buf, &renameOps).
LoadRecord(rel) == [op |-> "load", rel |-> rel]

\* One iteration of "for oldpath, newpath := range renameOps" in main: the
\* loop produces a key it has not produced yet.
RevalidateNext ==
    /\ pc = "revalidate"
    /\ \E o \in DOMAIN renameOps \ ranged :
          IF o = renameOps[o]
          THEN /\ renameOps' = Delete(renameOps, o)
               /\ UNCHANGED <<reverseOps, ranged>>
          ELSE IF IsNotExist(Stat(target, o))
          THEN /\ renameOps' = Delete(renameOps, o)
               /\ UNCHANGED <<reverseOps, ranged>>
          ELSE /\ reverseOps' = Put(reverseOps, renameOps[o], o)
               /\ ranged' = ranged \cup {o}
               /\ UNCHANGED renameOps
    /\ UNCHANGED <<source, target, entries, clobber, process, pc, cursor,
                   oldpath, newpath, cycleMarker, tmps, run, log>>

\* The loop has produced every key: the renames are processed (-p) or
\* previewed.
RevalidateDone ==
    /\ pc = "revalidate"
    /\ DOMAIN renameOps \ ranged = {}
    /\ ranged' = {}
    /\ pc' = IF process THEN "range" ELSE "exit"
    /\ UNCHANGED <<source, target, entries, renameOps, reverseOps, clobber, process,
                   cursor, oldpath, newpath, cycleMarker, tmps, run, log>>

(***************************************************************************)
(* Specifications                                                          *)
(***************************************************************************)
\* The state when main starts, with the flags -p and -f as given.
Start(p, c) ==
    /\ source = EmptyMap
    /\ target = EmptyMap
    /\ entries = EmptyMap
    /\ renameOps = EmptyMap
    /\ reverseOps = EmptyMap
    /\ clobber = c
    /\ process = p
    /\ pc = "visitSource"
    /\ cursor = NoPath
    /\ oldpath = NoPath
    /\ newpath = NoPath
    /\ cycleMarker = NoPath
    /\ ranged = {}
    /\ tmps = 0
    /\ run = 1
    /\ log = <<>>

SourcePaths == 1..NumSourcePaths

\* Spec: one run without -p (the two scans and the preview).  The files are
\* of one block or of two blocks; two of them cannot be read (one not at
\* all, one from its second block on).
ScanFiles ==
    { File(1, <<1>>, 0), File(1, <<2>>, 0), File(1, <<1>>, 1),
      File(BLOCKSIZE + 1, <<1, 1>>, 0), File(BLOCKSIZE + 1, <<1, 2>>, 0),
      File(BLOCKSIZE + 1, <<1, 1>>, 2) }

Init == Start(FALSE, FALSE)

Next ==
    \/ VisitSource(SourcePaths, ScanFiles)
    \/ SourceWalked
    \/ VisitTarget(Paths, ScanFiles)
    \/ TargetWalked
    \/ BuildRelation

Spec == Init /\ [][Next]_vars

\* SpecSource: visitSource alone, on more files of more kinds: empty files,
\* files of one block, of exactly one block (BLOCKSIZE bytes) and of two
\* blocks, files that cannot be opened, a file whose second block cannot be
\* read, and a directory.
ScanPaths == 1..NumScanPaths

SourceFiles ==
    { File(0, <<>>, 0),
      File(1, <<1>>, 0), File(1, <<2>>, 0), File(1, <<2>>, 1),
      File(BLOCKSIZE, <<1>>, 0), File(BLOCKSIZE, <<2>>, 0),
      File(BLOCKSIZE + 1, <<1, 1>>, 0), File(BLOCKSIZE + 1, <<1, 2>>, 0),
      File(BLOCKSIZE + 1, <<2, 1>>, 0), File(BLOCKSIZE + 1, <<1, 1>>, 1),
      File(BLOCKSIZE + 1, <<1, 2>>, 2),
      NotRegular }

InitSource == Start(FALSE, FALSE)

NextSource ==
    \/ VisitSource(ScanPaths, SourceFiles)
    \/ SourceWalked

SpecSource == InitSource /\ [][NextSource]_vars

\* SpecReplay: main in replay mode, from the point where the preview document
\* is unmarshalled into renameOps.  The document maps paths of TARGET, and
\* paths below them, to paths of TARGET; it may hold pairs with equal paths
\* and pairs that share their newpath.  TARGET holds files at some of its
\* paths.
ReplayPaths == 1..NumReplayPaths

Previews ==
    UNION {[D -> ReplayPaths] :
              D \in SUBSET (ReplayPaths \cup {Below(p) : p \in ReplayPaths})}

Loaded(rel, tree, p, c) ==
    /\ source = EmptyMap
    /\ target = tree
    /\ entries = EmptyMap
    /\ renameOps = rel
    /\ reverseOps = EmptyMap
    /\ clobber = c
    /\ process = p
    /\ pc = "revalidate"
    /\ cursor = NoPath
    /\ oldpath = NoPath
    /\ newpath = NoPath
    /\ cycleMarker = NoPath
    /\ ranged = {}
    /\ tmps = 0
    /\ run = 1
    /\ log = <<LoadRecord(rel)>>

InitReplay ==
    \E rel \in Previews, D \in SUBSET ReplayPaths, p \in BOOLEAN :
        Loaded(rel, [q \in D |-> File(q, <<q>>, 0)], p, FALSE)

NextReplay ==
    \/ RevalidateNext
    \/ RevalidateDone

SpecReplay == InitReplay /\ [][NextReplay]_vars

\* SpecRun: one run with -p on a preview, whose renames are processed once
\* it has been revalidated.  The preview maps paths of TARGET to paths of
\* TARGET and may hold pairs that share their newpath; the run is fair: a
\* step of main that can be taken is taken.
RunPaths == 1..NumRunPaths

RunPreviews == UNION {[D -> RunPaths] : D \in SUBSET RunPaths}

InitRun ==
    \E rel \in RunPreviews, D \in SUBSET RunPaths, c \in BOOLEAN :
        Loaded(rel, [q \in D |-> File(q, <<q>>, 0)], TRUE, c)

NextRun ==
    \/ RevalidateNext
    \/ RevalidateDone
    \/ RangeNext
    \/ RangeDone
    \/ ForwardStep
    \/ ForwardEnd
    \/ BreakCycle
    \/ TempFileFails
    \/ BackwardStep
    \/ BackwardEnd

SpecRun == InitRun /\ [][NextRun]_vars /\ WF_vars(NextRun)

\* SpecOrder: one run without -p on trees of files that can all be read, of
\* one block or of two blocks, whose files the two walks produce in any
\* order.
OrderSourcePaths == 1..NumOrderSourcePaths

OrderPaths == 1..NumOrderPaths

OrderFiles ==
    { File(1, <<1>>, 0), File(1, <<2>>, 0),
      File(BLOCKSIZE + 1, <<1, 1>>, 0), File(BLOCKSIZE + 1, <<1, 2>>, 0) }

Trees(paths) == UNION {[D -> OrderFiles] : D \in SUBSET paths}

InitOrder ==
    /\ source \in Trees(OrderSourcePaths)
    /\ target \in Trees(OrderPaths)
    /\ entries = EmptyMap
    /\ renameOps = EmptyMap
    /\ reverseOps = EmptyMap
    /\ clobber = FALSE
    /\ process = FALSE
    /\ pc = "visitSource"
    /\ cursor = NoPath
    /\ oldpath = NoPath
    /\ newpath = NoPath
    /\ cycleMarker = NoPath
    /\ ranged = {}
    /\ tmps = 0
    /\ run = 1
    /\ log = <<>>

NextOrder ==
    \/ VisitSourceAny
    \/ SourceWalkedAny
    \/ VisitTargetAny
    \/ TargetWalkedAny
    \/ BuildRelation

SpecOrder == InitOrder /\ [][NextOrder]_vars

\* SpecEmpty: one run without -p on trees that hold files of size 0, one of
\* which cannot be opened, and files of one byte.
EmptyFiles ==
    { File(0, <<>>, 0), File(0, <<>>, 1), File(1, <<1>>, 0), File(1, <<2>>, 0) }

InitEmpty == Start(FALSE, FALSE)

NextEmpty ==
    \/ VisitSource(SourcePaths, EmptyFiles)
    \/ SourceWalked
    \/ VisitTarget(Paths, EmptyFiles)
    \/ TargetWalked
    \/ BuildRelation

SpecEmpty == InitEmpty /\ [][NextEmpty]_vars

\* SpecSync: a run with -p, with or without -f, followed by a second run
\* without -p on the same SOURCE and on TARGET as the renames have left it.
SyncFiles ==
    { File(1, <<1>>, 0), File(1, <<2>>, 0), File(1, <<1>>, 1),
      File(BLOCKSIZE + 1, <<1, 1>>, 0) }

InitSync == \E c \in BOOLEAN : Start(TRUE, c)

NextSync ==
    \/ VisitSource(SourcePaths, SyncFiles)
    \/ SourceWalked
    \/ VisitTarget(Paths, SyncFiles)
    \/ TargetWalked
    \/ BuildRelation
    \/ RangeNext
    \/ RangeDone
    \/ ForwardStep
    \/ ForwardEnd
    \/ BreakCycle
    \/ TempFileFails
    \/ BackwardStep
    \/ BackwardEnd
    \/ RunAgain

SpecSync == InitSync /\ [][NextSync]_vars

\* SpecRename: a run with -p from the point where both walks are over, for
\* every rename relation a scan can produce on RenamePaths: an injective map
\* without fixed point.  The file of TARGET at path p has p bytes, the file
\* of SOURCE at newpath has the size of the file at oldpath, so that the
\* walks have matched each oldpath with its newpath by size alone; TARGET
\* may hold further files that match nothing, 'others', where a chain ends.
RenamePaths == 1..NumRenamePaths

Relations ==
    {f \in UNION {[D -> RenamePaths] : D \in SUBSET RenamePaths} :
        /\ \A o \in DOMAIN f : f[o] # o
        /\ \A o1, o2 \in DOMAIN f : f[o1] = f[o2] => o1 = o2}

Scanned(rel, others, c) ==
    /\ source = [n \in {rel[o] : o \in DOMAIN rel} |->
                    LET o == CHOOSE x \in DOMAIN rel : rel[x] = n IN File(o, <<o>>, 0)]
    /\ target = [p \in DOMAIN rel \cup others |-> File(p, <<p>>, 0)]
    /\ entries = [k \in {newFileEntry(o, o).key : o \in DOMAIN rel} |->
                     [sourceID |-> newFileEntry(rel[k.size], k.size).id,
                      targetID |-> newFileEntry(k.size, k.size).id]]
    /\ renameOps = EmptyMap
    /\ reverseOps = EmptyMap
    /\ clobber = c
    /\ process = TRUE
    /\ pc = "build"
    /\ cursor = NoPath
    /\ oldpath = NoPath
    /\ newpath = NoPath
    /\ cycleMarker = NoPath
    /\ ranged = {}
    /\ tmps = 0
    /\ run = 1
    /\ log = <<>>

InitRename ==
    \E rel \in Relations, c \in BOOLEAN :
        \E others \in SUBSET ({rel[o] : o \in DOMAIN rel} \ DOMAIN rel) :
            Scanned(rel, others, c)

NextRename ==
    \/ BuildRelation
    \/ RangeNext
    \/ RangeDone
    \/ ForwardStep
    \/ ForwardEnd
    \/ BreakCycle
    \/ TempFileFails
    \/ BackwardStep
    \/ BackwardEnd

SpecRename == InitRename /\ [][NextRename]_vars

(***************************************************************************)
(* Definitions the properties share                                        *)
(***************************************************************************)
IsRename(r) == r.op = "rename"

\* The renames attempted so far, in the order of the attempts.
Attempts == SelectSeq(log, IsRename)

\* The rename relation the table stands for (what BuildRelation stores in
\* renameOps; processRenames empties renameOps, the table keeps the plan).
Plan ==
    [o \in {v.targetID.path : v \in Renamed(entries)} |->
        (CHOOSE v \in Renamed(entries) : v.targetID.path = o).sourceID.path]

\* The path k edges of the relation 'plan' after o, NoPath once the chain has
\* ended.
RECURSIVE Follow(_, _, _)
Follow(plan, o, k) ==
    IF k = 0 THEN o
    ELSE LET q == Follow(plan, o, k - 1) IN IF q \in DOMAIN plan THEN plan[q] ELSE NoPath

\* The paths reached from o along the plan, o included.
Orbit(plan, o) == {Follow(plan, o, k) : k \in 0..Cardinality(DOMAIN plan)} \ {NoPath}

\* The edges of the plan that lie on a cycle, by their oldpath.
Cyclic(plan) ==
    {o \in DOMAIN plan : \E k \in 1..Cardinality(DOMAIN plan) : Follow(plan, o, k) = o}

\* The attempt r is the edge of the plan that starts at o.
IsEdge(plan, r, o) == r.old = o /\ r.new = plan[o]

\* The file SpecRename puts at path p of TARGET before the renames.
Original(p) == File(p, <<p>>, 0)

(***************************************************************************)
(* C1: in SpecRename, the edges of an acyclic chain of the plan are         *)
(* attempted in reverse chain order: an edge a -> b whose destination b    *)
(* starts a further edge b -> c is attempted right after b -> c (so the    *)
(* first attempt on a chain is its last edge); once the backward pass is   *)
(* over, an edge a -> b with a predecessor p -> a has been followed at     *)
(* once by p -> a, whichever edge the range loop picked (so the last       *)
(* attempt is the chain's first edge, also when it lies before the entry   *)
(* point); and when processRenames returns every edge of a chain has been  *)
(* attempted exactly once.                                                 *)
(***************************************************************************)
ChainOrder ==
    LET plan == Plan
        att == Attempts
        chain == DOMAIN plan \ Cyclic(plan)
    IN  /\ \A i \in 1..Len(att) : \A a \in chain :
              (IsEdge(plan, att[i], a) /\ plan[a] \in DOMAIN plan)
                  => (i > 1 /\ IsEdge(plan, att[i - 1], plan[a]))
        /\ pc \in {"range", "exit"} =>
              \A i \in 1..Len(att) : \A a \in chain : \A p \in DOMAIN plan :
                  (IsEdge(plan, att[i], a) /\ plan[p] = a)
                      => (i < Len(att) /\ IsEdge(plan, att[i + 1], p))
        /\ pc = "exit" =>
              \A a \in chain :
                  Cardinality({i \in 1..Len(att) : IsEdge(plan, att[i], a)}) = 1

\* A chain a -> b -> c -> d entered at its middle edge b -> c has been
\* renamed in the order c -> d, b -> c, a -> b.
ChainOrderWitness ==
    /\ pc = "exit"
    /\ Len(Attempts) = 3
    /\ LET plan == Plan
           att == Attempts
       IN  \E a, b, c \in DOMAIN plan :
               /\ plan[a] = b /\ plan[b] = c /\ plan[c] \notin DOMAIN plan
               /\ cycleMarker = b
               /\ IsEdge(plan, att[1], c) /\ IsEdge(plan, att[2], b)
               /\ IsEdge(plan, att[3], a)

(***************************************************************************)
(* C2: in SpecRename, when processRenames has returned, for every cycle of *)
(* the plan whose renames have all succeeded (the rename to the temporary  *)
(* name, the renames of the edges, the rename of the temporary name):      *)
(* exactly one file of the cycle has been renamed to a temporary name,     *)
(* every file of the cycle is at its newpath, every file TARGET held       *)
(* before is still in TARGET, the temporary name is gone, and no path has  *)
(* been the destination of two renames of the cycle.                       *)
(***************************************************************************)
\* The attempts that move a file of the paths C to a temporary name.
ToTmp(att, C) == {i \in 1..Len(att) : att[i].old \in C /\ IsTmp(att[i].new)}

\* The attempts on the cycle through the paths C: those that rename a path
\* of C and those that rename the temporary name of C.
OfCycle(att, C) ==
    {i \in 1..Len(att) :
        att[i].old \in C \/ \E j \in ToTmp(att, C) : att[i].old = att[j].new}

CycleRotated ==
    pc = "exit" =>
        LET plan == Plan
            att == Attempts
        IN  \A o \in Cyclic(plan) :
                LET C == Orbit(plan, o)
                    mine == OfCycle(att, C)
                IN  (\A i \in mine : att[i].result = "renamed") =>
                        /\ Cardinality(ToTmp(att, C)) = 1
                        /\ \A x \in C : /\ plan[x] \in DOMAIN target
                                        /\ target[plan[x]] = Original(x)
                        /\ \A i \in mine : ~att[i].replaced
                        /\ \A i \in ToTmp(att, C) : att[i].new \notin DOMAIN target
                        /\ \A i, j \in mine : att[i].new = att[j].new => i = j

\* A cycle a -> b -> c -> a has been rotated: four renames have succeeded,
\* the first of them to a temporary name.
CycleRotatedWitness ==
    /\ pc = "exit"
    /\ LET plan == Plan
           att == Attempts
       IN  /\ Len(att) = 4
           /\ \A i \in 1..4 : att[i].result = "renamed"
           /\ IsTmp(att[1].new)
           /\ \E a \in DOMAIN plan :
                 /\ Cardinality(Orbit(plan, a)) = 3
                 /\ Follow(plan, a, 3) = a
                 /\ target[plan[a]] = Original(a)

(***************************************************************************)
(* C3: in SpecRename with clobber off, an iteration of the backward loop   *)
(* whose newpath holds a file renames nothing, so that oldpath and newpath *)
(* keep their files, and it logs the rename as skipped; and no iteration   *)
(* of the backward loop removes a file that TARGET holds: each file is     *)
(* still in TARGET after it.                                               *)
(***************************************************************************)
Files(tree) == {tree[p] : p \in DOMAIN tree}

NoClobber ==
    [][(pc = "backward" /\ oldpath # NoPath /\ ~clobber) =>
          /\ Files(target) \subseteq Files(target')
          /\ newpath \in DOMAIN target =>
                /\ target' = target
                /\ log'[Len(log')].result = "skipped"
                /\ log'[Len(log')].old = oldpath
                /\ log'[Len(log')].new = newpath]_vars

\* With clobber off a rename has been skipped, and its two paths hold the
\* files they held before the renames.
NoClobberWitness ==
    /\ ~clobber
    /\ \E i \in 1..Len(log) :
          /\ log[i].result = "skipped"
          /\ log[i].old \in DOMAIN target /\ target[log[i].old] = Original(log[i].old)
          /\ log[i].new \in DOMAIN target /\ target[log[i].new] = Original(log[i].new)

(***************************************************************************)
(* Definitions shared by the properties of the scans                       *)
(***************************************************************************)
\* The regular files of a tree.
Regular(tree) == {p \in DOMAIN tree : tree[p].regular}

\* Two files of the same size with the same bytes.
Identical(f, g) == f.size = g.size /\ f.data = g.data

\* The file can be opened and read to its end.
Readable(f) == f.bad = 0

\* The fingerprints under which the table holds the file p of SOURCE.
SourceKeys(es, p) == {k \in DOMAIN es : es[k].sourceID.path = p}

\* The fingerprint of a file that has been rolled to exhaustion.
Exhausted(f) ==
    [size |-> f.size, pos |-> (f.size \div BLOCKSIZE) + 1, hash |-> md5Sum(f.data)]

\* The index of the first block in which two files of the same size differ.
FirstDifference(f, g) ==
    CHOOSE i \in 1..Len(f.data) :
        /\ f.data[i] # g.data[i]
        /\ \A j \in 1..(i - 1) : f.data[j] = g.data[j]

\* The visits of the source scan.
SourceVisits == {i \in 1..Len(log) : log[i].op = "source"}

(***************************************************************************)
(* C4: in SpecSource, when visitSource has returned, no two readable files *)
(* of SOURCE with the same size and the same bytes are retained, whatever  *)
(* other files SOURCE holds and in whatever order they were visited: no    *)
(* entry of the table has one of them as its source, and the fingerprint   *)
(* at which they are exhausted holds a dummy entry.                        *)
(***************************************************************************)
SourceDuplicatesDropped ==
    pc = "visitTarget" =>
        \A p, q \in Regular(source) :
            (p # q /\ Identical(source[p], source[q])
                   /\ Readable(source[p]) /\ Readable(source[q])) =>
                /\ SourceKeys(entries, p) = {}
                /\ SourceKeys(entries, q) = {}
                /\ Exhausted(source[p]) \in DOMAIN entries
                /\ entries[Exhausted(source[p])] = dummy

(***************************************************************************)
(* C5: in SpecSource, when visitSource has returned, of two files of       *)
(* SOURCE of the same size with different bytes, neither of which has the  *)
(* bytes of another file of SOURCE, each one that can be read is retained  *)
(* as the source of an entry at a fingerprint whose rollCount is the index *)
(* of the first block in which the two differ, and the two are retained    *)
(* with different digests.                                                 *)
(***************************************************************************)
Duplicated(tree, p) ==
    \E r \in Regular(tree) \ {p} : Identical(tree[r], tree[p])

SourceDistinctRetained ==
    pc = "visitTarget" =>
        \A p, q \in Regular(source) :
            (p # q /\ source[p].size = source[q].size
                   /\ source[p].data # source[q].data
                   /\ ~Duplicated(source, p) /\ ~Duplicated(source, q)) =>
                /\ Readable(source[p]) =>
                      \E k \in SourceKeys(entries, p) :
                          k.pos = FirstDifference(source[p], source[q])
                /\ \A k \in SourceKeys(entries, p), l \in SourceKeys(entries, q) :
                      k.hash # l.hash

(***************************************************************************)
(* C6: in SpecSource, when visitSource has returned, a regular file of     *)
(* SOURCE whose size no other regular file of SOURCE has is the source of  *)
(* the entry at its size-only fingerprint (rollCount 0, empty digest), and *)
(* no visit of the scan has called rollingChecksum on it, whether it can   *)
(* be read or not.                                                         *)
(***************************************************************************)
UniqueSizeStored ==
    pc = "visitTarget" =>
        \A p \in Regular(source) :
            (\A q \in Regular(source) \ {p} : source[q].size # source[p].size) =>
                LET k == newFileEntry(p, source[p].size).key
                IN  /\ k \in DOMAIN entries
                    /\ entries[k] = [sourceID |-> [path |-> p, h |-> <<>>],
                                     targetID |-> nil]
                    /\ SourceKeys(entries, p) = {k}
                    /\ \A i \in SourceVisits : <<"source", p>> \notin log[i].rolled

\* A file that cannot be opened is stored at its size-only fingerprint, next
\* to files of other sizes that have been rolled.
UniqueSizeStoredWitness ==
    /\ pc = "visitTarget"
    /\ \E p \in Regular(source) :
          /\ ~Readable(source[p])
          /\ \A q \in Regular(source) \ {p} : source[q].size # source[p].size
          /\ SourceKeys(entries, p) = {newFileEntry(p, source[p].size).key}
    /\ \E i \in SourceVisits : log[i].rolled # {}

(***************************************************************************)
(* Definitions shared by the properties of the target scan                 *)
(***************************************************************************)
\* The record of the visit a step has made, when the step is a visit.
Visited == log' # log

LastVisit == log'[Len(log')]

\* The branches of the target visitor that discard the file visited.
Discards == {"noMatch", "duplicateMatch", "rejected"}

\* The files of TARGET whose visit has ended in a discard branch.
Discarded(l) ==
    {l[i].input : i \in {j \in 1..Len(l) : l[j].op = "target" /\ l[j].branch \in Discards}}

\* The paths the table holds as targets.
TargetPaths(es) == {es[k].targetID.path : k \in DOMAIN es} \ {NoPath, SEPARATOR}

\* The first blocks of a file that a fingerprint of rollCount n covers.
Blocks(f, n) == SubSeq(f.data, 1, IF n > Len(f.data) THEN Len(f.data) ELSE n)

(***************************************************************************)
(* C7: in Spec, a visit of visitTarget that ends in a discard branch (no   *)
(* entry at the fingerprint the file has reached, a dummy entry at its     *)
(* exhaustion, an entry marked unsolvable) leaves the table as it was, and *)
(* from then on the file is the target of no entry and is no oldpath of    *)
(* renameOps.                                                              *)
(***************************************************************************)
TargetDiscarded ==
    [][/\ (pc = "visitTarget" /\ Visited /\ LastVisit.branch \in Discards) =>
             entries' = entries
       /\ \A p \in Discarded(log') :
             /\ p \notin TargetPaths(entries')
             /\ p \notin DOMAIN renameOps']_vars

\* The relation is built; one file of TARGET has been discarded for want of
\* an entry and another one on the dummy entry of two duplicates of SOURCE.
TargetDiscardedWitness ==
    /\ pc = "exit"
    /\ \E k \in DOMAIN entries : entries[k] = dummy
    /\ \E i, j \in 1..Len(log) :
          /\ log[i].op = "target" /\ log[i].branch = "noMatch"
          /\ log[j].op = "target" /\ log[j].branch = "duplicateMatch"

(***************************************************************************)
(* C9: in Spec, a visit of visitTarget that resolves a conflict between    *)
(* the source S of an entry, its target T1 and the file visited T2, and    *)
(* ends with the fingerprint of exactly one of T1 and T2 equal to that of  *)
(* S, leaves at the fingerprint of S the entry with source S and with this *)
(* candidate as target (T2 when T1 has diverged, T1 when T2 has diverged); *)
(* the candidate kept has the blocks of S that the fingerprint covers, and *)
(* the other candidate is the target of no entry.                          *)
(***************************************************************************)
\* The visit of the step left S's fingerprint equal to that of the candidate
\* with fingerprint 'kept' and different from that of the other one.
OneDiverges(r, kept, other) ==
    /\ pc = "visitTarget" /\ Visited
    /\ r.conflict # NoPath /\ r.branch # "sourceError"
    /\ kept = r.sourceKey /\ other # r.sourceKey

KeepsEqual(r, keptPath, otherPath) ==
    /\ r.sourceKey \in DOMAIN entries'
    /\ entries'[r.sourceKey].sourceID.path = r.src
    /\ entries'[r.sourceKey].targetID.path = keptPath
    /\ otherPath \notin TargetPaths(entries')
    /\ Blocks(target'[keptPath], r.sourceKey.pos) = Blocks(source[r.src], r.sourceKey.pos)

EqualCandidateKept ==
    [][LET r == LastVisit
       IN  /\ OneDiverges(r, r.conflictKey, r.inputKey) => KeepsEqual(r, r.conflict, r.input)
           /\ OneDiverges(r, r.inputKey, r.conflictKey) => KeepsEqual(r, r.input, r.conflict)]_vars

\* S was matched by T1; T2, of the same size, has been visited and differs
\* from S in its second block: the entry of S has T1 as target, at the
\* fingerprint of two rolls.
EqualCandidateKeptWitness ==
    \E i \in 1..Len(log) :
        LET r == log[i]
        IN  /\ r.op = "target" /\ r.branch = "keepConflict"
            /\ r.sourceKey.pos = 2
            /\ r.sourceKey \in DOMAIN entries
            /\ entries[r.sourceKey].targetID.path = r.conflict
            /\ target[r.conflict].data = source[r.src].data
            /\ target[r.input].data # source[r.src].data
            /\ Readable(target[r.input])

(***************************************************************************)
(* C10: in Spec, a visit of visitTarget that finds the source of an entry, *)
(* its target and the file visited equal at their exhaustion leaves the    *)
(* entry with its source and with the unsolvable sentinel as target; an    *)
(* entry marked unsolvable stays as it is in every later step, a later     *)
(* file of TARGET that reaches its fingerprint is discarded, and its       *)
(* source is no newpath of the rename relation.                            *)
(***************************************************************************)
Unsolvables(es) == {k \in DOMAIN es : es[k].targetID = unsolvable}

UnsolvableStays ==
    [][/\ (pc = "visitTarget" /\ Visited /\ LastVisit.branch = "unsolvable") =>
             /\ LastVisit.sourceKey \in Unsolvables(entries')
             /\ entries'[LastVisit.sourceKey].sourceID.path = LastVisit.src
             /\ LastVisit.src \in DOMAIN source
       /\ \A k \in Unsolvables(entries) :
             /\ k \in DOMAIN entries' /\ entries'[k] = entries[k]
             /\ (pc = "visitTarget" /\ Visited /\ LastVisit.inputKey = k) =>
                   /\ LastVisit.branch = "rejected"
                   /\ LastVisit.input \notin TargetPaths(entries')
             /\ entries[k].sourceID.path \notin Range(renameOps')
             /\ entries[k].sourceID.path \notin DOMAIN reverseOps']_vars

\* Two files of TARGET have made an entry unsolvable, a third one with their
\* bytes has been rejected, and the relation has been built.
UnsolvableStaysWitness ==
    /\ pc = "exit"
    /\ Unsolvables(entries) # {}
    /\ \E i, j \in 1..Len(log) :
          /\ i < j
          /\ log[i].op = "target" /\ log[i].branch = "unsolvable"
          /\ log[j].op = "target" /\ log[j].branch = "rejected"
          /\ log[j].inputKey = log[i].sourceKey

(***************************************************************************)
(* C8: in SpecSync, when the second run has built its relation: if every   *)
(* rename the first run attempted has succeeded, the relation of the       *)
(* second run is empty.                                                    *)
(***************************************************************************)
\* The second run has scanned the trees and built its relation.
Rescanned == run = 2 /\ pc = "exit"

Idempotent ==
    LET att == Attempts
    IN  (Rescanned /\ \A i \in 1..Len(att) : att[i].result = "renamed") =>
            renameOps = EmptyMap

(***************************************************************************)
(* C8, amended: in SpecSync, when the second run has built its relation:   *)
(* if every rename the first run attempted has succeeded and none of them  *)
(* has replaced a file that TARGET held, the relation of the second run is *)
(* empty.                                                                  *)
(***************************************************************************)
IdempotentUnlessReplaced ==
    LET att == Attempts
    IN  (Rescanned /\ \A i \in 1..Len(att) :
                          att[i].result = "renamed" /\ ~att[i].replaced) =>
            renameOps = EmptyMap

\* The first run has renamed two files or more, all with success and none
\* onto a file, and the second run has found nothing to rename.
IdempotentUnlessReplacedWitness ==
    LET att == Attempts
    IN  /\ Rescanned
        /\ Len(att) >= 2
        /\ \A i \in 1..Len(att) : att[i].result = "renamed" /\ ~att[i].replaced
        /\ renameOps = EmptyMap
        /\ \E p \in DOMAIN target : p \in DOMAIN source /\ Identical(target[p], source[p])

(***************************************************************************)
(* C11: in SpecEmpty, no entry of the table has a fingerprint of size 0,   *)
(* and no file of size 0 is an oldpath or a newpath of the relation.       *)
(***************************************************************************)
\* The regular files of size 0 of a tree.
Empties(tree) == {p \in Regular(tree) : tree[p].size = 0}

EmptyFilesExcluded ==
    /\ \A k \in DOMAIN entries : k.size # 0
    /\ DOMAIN renameOps \cap Empties(target) = {}
    /\ Range(renameOps) \cap Empties(source) = {}

(***************************************************************************)
(* C11, amended: in SpecEmpty, files of size 0 are scanned as the other    *)
(* regular files are.  When SOURCE holds no regular file of size 0, no     *)
(* entry of the table has a fingerprint of size 0 and no file of size 0 is *)
(* in the relation; when SOURCE and TARGET hold one regular file of size 0 *)
(* each, at different paths, the relation renames the one of TARGET to the *)
(* path of the one of SOURCE.                                              *)
(***************************************************************************)
EmptyFilesScanned ==
    /\ (pc # "visitSource" /\ Empties(source) = {}) =>
          /\ \A k \in DOMAIN entries : k.size # 0
          /\ DOMAIN renameOps \cap Empties(target) = {}
    /\ pc = "exit" =>
          \A s \in Empties(source), t \in Empties(target) :
              (Empties(source) = {s} /\ Empties(target) = {t} /\ s # t) =>
                  /\ t \in DOMAIN renameOps
                  /\ renameOps[t] = s

\* The relation renames the file of size 0 of TARGET to the path of the file
\* of size 0 of SOURCE, next to files of one byte.
EmptyFilesScannedWitness ==
    /\ pc = "exit"
    /\ \E s \in Empties(source), t \in Empties(target) :
          /\ Empties(source) = {s} /\ Empties(target) = {t}
          /\ s # t
          /\ renameOps[t] = s
    /\ Regular(source) # Empties(source)

(***************************************************************************)
(* C12: in SpecReplay, when the loop of main over the relation loaded from *)
(* the preview ends, renameOps holds the loaded pairs whose paths differ   *)
(* and whose oldpath exists in TARGET, and no other pair; every entry of   *)
(* reverseOps is the reverse of a pair that is kept, and the newpath of    *)
(* every pair that is kept has an entry.  The loop removes a pair only     *)
(* when os.IsNotExist accepts the error of os.Stat: a pair whose oldpath   *)
(* lies below a regular file of TARGET, where os.Stat fails with "not a    *)
(* directory", stays in renameOps and reverseOps although its oldpath does *)
(* not exist.                                                              *)
(***************************************************************************)
\* The relation loaded from the preview document.
Preview == log[1].rel

\* renameOps is the relation rel restricted to 'kept', and reverseOps holds
\* reverses of these pairs only, one for each newpath.
Keeps(rel, kept, forward, reverse) ==
    /\ DOMAIN forward = kept
    /\ \A o \in kept : forward[o] = rel[o]
    /\ \A n \in DOMAIN reverse : reverse[n] \in kept /\ rel[reverse[n]] = n
    /\ \A o \in kept : rel[o] \in DOMAIN reverse

Revalidated ==
    [][(pc = "revalidate" /\ pc' # "revalidate") =>
          Keeps(Preview,
                {o \in DOMAIN Preview : Preview[o] # o /\ o \in DOMAIN target},
                renameOps', reverseOps')]_vars

(***************************************************************************)
(* C13: in SpecSource, the fingerprint with which a visit has found a file *)
(* of SOURCE exhausted (the last roll of the file has returned io.EOF and  *)
(* the visit has logged a source duplicate) satisfies                      *)
(*     (pos - 1) * BLOCKSIZE < size <= pos * BLOCKSIZE,                    *)
(* for the files that are not empty, those of BLOCKSIZE bytes included.    *)
(***************************************************************************)
\* The relation of the package documentation for a complete partial hash.
Complete(key) ==
    (key.pos - 1) * BLOCKSIZE < key.size /\ key.size <= key.pos * BLOCKSIZE

ExhaustionRelation ==
    \A i \in SourceVisits :
        (log[i].branch \in {"duplicate", "duplicates"} /\ log[i].inputKey.size > 0) =>
            Complete(log[i].inputKey)

(***************************************************************************)
(* C14: in SpecSource, a visit of visitSource that ends on a read error in *)
(* the conflict loop drops only the file whose read has failed: when the   *)
(* read of the file visited fails, the file retained before is still the   *)
(* source of an entry after the visit; when the read of the file retained  *)
(* before fails, the file visited is the source of an entry after the      *)
(* visit and the other file is not.                                        *)
(***************************************************************************)
ReadErrorLocal ==
    [][(pc = "visitSource" /\ Visited) =>
          LET r == LastVisit
          IN  /\ r.branch = "inputError" =>
                    /\ SourceKeys(entries', r.conflict) # {}
                    /\ SourceKeys(entries', r.input) = {}
              /\ r.branch = "conflictError" =>
                    /\ SourceKeys(entries', r.input) # {}
                    /\ SourceKeys(entries', r.conflict) = {}]_vars

(***************************************************************************)
(* Definitions shared by the properties of the 3-way conflict              *)
(***************************************************************************)
\* The fingerprint of the file f after n rolls.
PrefixKey(f, n) ==
    [size |-> f.size, pos |-> n,
     hash |-> IF n = 0 THEN <<>> ELSE md5Sum(Blocks(f, n))]

\* The step is a visit of visitTarget that has gone through the conflict
\* loop with the record r.
Conflicted(r) == pc = "visitTarget" /\ Visited /\ r.conflict # NoPath

\* The candidate at 'path' has fallen behind the source because its read
\* has failed.
Failed(tree, path, key, sourceKey) ==
    key.pos < sourceKey.pos /\ ReadFails(tree[path], key.pos)

\* The entry of the table at the fingerprint of the source of the visit r
\* has this source, and has the file at 'path' as target (NoPath: no target).
SourceEntry(es, r, path) ==
    /\ r.sourceKey \in DOMAIN es
    /\ es[r.sourceKey].sourceID.path = r.src
    /\ es[r.sourceKey].targetID.path = path

(***************************************************************************)
(* C15: in Spec, after a visit of visitTarget in whose conflict loop the   *)
(* read of a candidate (the target matched before, the file visited, or    *)
(* both) has failed and the read of the source has not, the source is      *)
(* still the source of the entry at its fingerprint and a candidate whose  *)
(* read has failed is the target of no entry; when one candidate has       *)
(* failed, the other one is the target of that entry exactly when its      *)
(* fingerprint equals that of the source, and the entry has no target      *)
(* otherwise; when both have failed, the entry has no target.              *)
(***************************************************************************)
CandidateErrorLocal ==
    [][LET r == LastVisit
           inputFailed == Failed(target', r.input, r.inputKey, r.sourceKey)
           conflictFailed == Failed(target', r.conflict, r.conflictKey, r.sourceKey)
       IN  (Conflicted(r) /\ r.branch # "sourceError") =>
               /\ inputFailed => r.input \notin TargetPaths(entries')
               /\ conflictFailed => r.conflict \notin TargetPaths(entries')
               /\ (inputFailed /\ ~conflictFailed) =>
                     IF r.conflictKey = r.sourceKey
                     THEN SourceEntry(entries', r, r.conflict)
                     ELSE SourceEntry(entries', r, NoPath)
               /\ (conflictFailed /\ ~inputFailed) =>
                     IF r.inputKey = r.sourceKey
                     THEN SourceEntry(entries', r, r.input)
                     ELSE SourceEntry(entries', r, NoPath)
               /\ (inputFailed /\ conflictFailed) =>
                     SourceEntry(entries', r, NoPath)]_vars

\* The second block of the target matched before could not be read: the
\* file visited, which has the two blocks of the source, has replaced it.
CandidateErrorLocalWitness ==
    \E i \in 1..Len(log) :
        LET r == log[i]
        IN  /\ r.op = "target" /\ r.branch = "keepInput"
            /\ r.sourceKey.pos = 2
            /\ Failed(target, r.conflict, r.conflictKey, r.sourceKey)
            /\ SourceEntry(entries, r, r.input)

(***************************************************************************)
(* C16: in Spec, after a visit of visitTarget in whose conflict loop the   *)
(* read of the source has failed, no entry of the table has the source as  *)
(* source, nor the target matched before or the file visited as target,    *)
(* and every fingerprint the three files have shared during the conflict   *)
(* holds a dummy entry.                                                    *)
(***************************************************************************)
\* The fingerprints of the file f from the one of key k to the one of n rolls.
SharedKeys(f, k, n) == {PrefixKey(f, i) : i \in k.pos..n}

SourceErrorAborts ==
    [][LET r == LastVisit
       IN  (Conflicted(r) /\ r.branch = "sourceError") =>
               /\ SourceKeys(entries', r.src) = {}
               /\ r.conflict \notin TargetPaths(entries')
               /\ r.input \notin TargetPaths(entries')
               /\ \A k \in SourceKeys(entries, r.src) :
                     \A d \in SharedKeys(source[r.src], k, r.sourceKey.pos) :
                         d \in DOMAIN entries' /\ entries'[d] = dummy]_vars

\* The second block of the source could not be read: the fingerprints of no
\* roll and of one roll hold dummy entries and the source is in no entry.
SourceErrorAbortsWitness ==
    \E i \in 1..Len(log) :
        LET r == log[i]
        IN  /\ r.op = "target" /\ r.branch = "sourceError"
            /\ r.sourceKey.pos = 1
            /\ SourceKeys(entries, r.src) = {}
            /\ entries[r.sourceKey] = dummy

(***************************************************************************)
(* C17: in Spec, after a visit of visitTarget whose conflict loop ends     *)
(* with the fingerprint of the source different from those of the two      *)
(* candidates, the entry at the fingerprint of the source has the source   *)
(* and no target, and neither candidate is the target of an entry; and a   *)
(* visit of a file of TARGET that can be read and has the fingerprint of   *)
(* an entry with a source and no target attaches the file as its target.   *)
(***************************************************************************)
\* The file f can be rolled n times.
Rolls(f, n) == f.bad = 0 \/ f.bad > n

BothDiverge ==
    [][LET r == LastVisit
       IN  /\ (Conflicted(r) /\ r.branch # "sourceError"
                  /\ r.inputKey # r.sourceKey /\ r.conflictKey # r.sourceKey) =>
                 /\ SourceEntry(entries', r, NoPath)
                 /\ r.input \notin TargetPaths(entries')
                 /\ r.conflict \notin TargetPaths(entries')
           /\ (pc = "visitTarget" /\ Visited) =>
                 \A k \in DOMAIN entries :
                     LET f == target'[r.input]
                     IN  (/\ entries[k].sourceID # nil /\ entries[k].targetID = nil
                          /\ f.regular /\ Rolls(f, k.pos)
                          /\ PrefixKey(f, k.pos) = k) =>
                             /\ r.branch = "firstMatch"
                             /\ entries'[k].sourceID = entries[k].sourceID
                             /\ entries'[k].targetID.path = r.input]_vars

\* Two candidates have diverged from the source, and a third file of TARGET
\* with the blocks of the source has become its target.
BothDivergeWitness ==
    \E i, j \in 1..Len(log) :
        /\ i < j
        /\ log[i].op = "target" /\ log[i].branch = "dropBoth"
        /\ log[j].op = "target" /\ log[j].branch = "firstMatch"
        /\ log[j].inputKey = log[i].sourceKey
        /\ SourceEntry(entries, log[i], log[j].input)

(***************************************************************************)
(* C18: in Spec, the relation main has built from the table of the two     *)
(* scans has exactly the pairs (path of the target, path of the source) of *)
(* the entries whose target is a file, neither unset nor unsolvable, and   *)
(* whose two paths differ; no pair has oldpath = newpath; and reverseOps   *)
(* is the inverse of renameOps.                                            *)
(***************************************************************************)
\* The pairs (key, value) of the map m.
Pairs(m) == {<<k, m[k]>> : k \in DOMAIN m}

\* The pairs of paths of the entries with a target of another path.
Matched(es) ==
    {<<v.targetID.path, v.sourceID.path>> :
        v \in {e \in Range(es) : /\ e.targetID.path \notin {NoPath, SEPARATOR}
                                   /\ e.targetID.path # e.sourceID.path}}

RelationExact ==
    pc = "exit" =>
        /\ Pairs(renameOps) = Matched(entries)
        /\ \A o \in DOMAIN renameOps : renameOps[o] # o
        /\ Pairs(reverseOps) = {<<pr[2], pr[1]>> : pr \in Pairs(renameOps)}

\* The relation has a pair, and the entry of a file that is at the same path
\* in SOURCE and in TARGET has given none.
RelationExactWitness ==
    /\ pc = "exit"
    /\ renameOps # EmptyMap
    /\ \E v \in Range(entries) :
          v.targetID.path \in Paths /\ v.targetID.path = v.sourceID.path

(***************************************************************************)
(* C19: in SpecRename, when processRenames renames oldpath to newpath (in  *)
(* the backward loop or to the temporary name of a cycle), newpath is the  *)
(* oldpath of no edge that renameOps still has, and the files at the       *)
(* oldpaths of the edges that remain after it are the ones that were       *)
(* there before it; and when every rename attempted so far has succeeded,  *)
(* a file the rename replaces is none of the files the relation moves.     *)
(* This holds with clobber on and with clobber off.                        *)
(***************************************************************************)
\* The step is an attempt of processRenames to rename a file.
Attempted == pc \in {"cycle", "backward"} /\ log' # log

\* Every rename attempted so far has succeeded.
AllRenamed == \A i \in 1..Len(log) : IsRename(log[i]) => log[i].result = "renamed"

PendingSafe ==
    [][Attempted =>
          LET r == log'[Len(log')]
              plan == Plan
          IN  /\ r.new \notin DOMAIN renameOps
              /\ \A o \in DOMAIN renameOps' :
                    o \in DOMAIN target => o \in DOMAIN target' /\ target'[o] = target[o]
              /\ (AllRenamed /\ r.replaced) =>
                    \A o \in DOMAIN plan : target[r.new] # Original(o)]_vars

\* With clobber on, the second rename of a chain has succeeded as the first
\* one did, a rename has replaced a file the relation does not move, and an
\* edge remains.
PendingSafeWitness ==
    /\ clobber
    /\ pc = "backward"
    /\ renameOps # EmptyMap
    /\ Len(Attempts) >= 2
    /\ AllRenamed
    /\ \E i \in 1..Len(log) : IsRename(log[i]) /\ log[i].replaced

(***************************************************************************)
(* C20: in SpecRename, with clobber on or off, when exactly one rename     *)
(* has failed (a rename of the backward loop or the rename to or from the  *)
(* temporary name of a cycle) and processRenames has returned, every edge  *)
(* of the relation has been attempted and renameOps is empty, and every    *)
(* file the relation moves, other than the one whose rename failed, is in  *)
(* TARGET with its content at its old or at its new path.                  *)
(***************************************************************************)
\* The attempts that have failed, by their index in the log.
Failures == {i \in 1..Len(log) : IsRename(log[i]) /\ log[i].result = "failed"}

\* The oldpath the file of the attempt log[i] had before the renames: the
\* file at a temporary name is the one that was renamed to it.
Moved(i) ==
    IF IsTmp(log[i].old)
    THEN {log[j].old : j \in {k \in 1..Len(log) : IsRename(log[k]) /\ log[k].new = log[i].old}}
    ELSE {log[i].old}

\* The file that was at o before the renames is at o or at the newpath of o.
Kept(plan, o) ==
    \/ o \in DOMAIN target /\ target[o] = Original(o)
    \/ plan[o] \in DOMAIN target /\ target[plan[o]] = Original(o)

FailureLocal ==
    (pc = "exit" /\ Cardinality(Failures) = 1) =>
        LET plan == Plan
            failed == UNION {Moved(i) : i \in Failures}
        IN  /\ renameOps = EmptyMap
            /\ \A o \in DOMAIN plan : \E i \in 1..Len(log) : IsRename(log[i]) /\ log[i].old = o
            /\ \A o \in DOMAIN plan \ failed : Kept(plan, o)

\* The file that was at o before the renames is at a temporary name.
Aside(o) == \E t \in DOMAIN target : IsTmp(t) /\ target[t] = Original(o)

\* C20, with the temporary name: as FailureLocal, but a file of the relation
\* other than the one whose rename failed is in TARGET with its content at
\* its old path, at its new path, or at the temporary name the break of its
\* cycle has given it.
FailureLocalOrAside ==
    (pc = "exit" /\ Cardinality(Failures) = 1) =>
        LET plan == Plan
            failed == UNION {Moved(i) : i \in Failures}
        IN  /\ renameOps = EmptyMap
            /\ \A o \in DOMAIN plan : \E i \in 1..Len(log) : IsRename(log[i]) /\ log[i].old = o
            /\ \A o \in DOMAIN plan \ failed : Kept(plan, o) \/ Aside(o)

\* With clobber off, a rename of a cycle has failed after the rename to the
\* temporary name: the rename from the temporary name has been skipped and
\* the file is left there, while the other files are at their old paths.
FailureLocalOrAsideWitness ==
    /\ pc = "exit"
    /\ ~clobber
    /\ Cardinality(Failures) = 1
    /\ \E i \in 1..Len(log) :
          /\ IsRename(log[i]) /\ IsTmp(log[i].old) /\ log[i].result = "skipped"
          /\ log[i].old \in DOMAIN target
          /\ \E o \in DOMAIN Plan : target[log[i].old] = Original(o) /\ ~Kept(Plan, o)

(***************************************************************************)
(* C21: in SpecRename, when the forward walk has come back to the oldpath  *)
(* it started from (cycleMarker), the file renamed to the temporary name   *)
(* is the one the walk started from, the temporary name is a name no file  *)
(* has and becomes the reverse of cycleMarker, and the backward loop ends  *)
(* with the rename of the temporary name to cycleMarker.                   *)
(***************************************************************************)
\* The step renames 'moved' to the temporary name and plugs the name in.
Breaks(moved) ==
    LET r == log'[Len(log')]
    IN  /\ log' # log
        /\ r.old = moved
        /\ IsTmp(r.new)
        /\ r.new \notin DOMAIN target
        /\ reverseOps'[cycleMarker] = r.new

\* The backward loop of a walk that has found a cycle renames the temporary
\* name to cycleMarker in its last iteration.
EndsOnTmp ==
    /\ (pc = "backward" /\ IsTmp(oldpath)) =>
          /\ newpath = cycleMarker
          /\ log'[Len(log')].old = oldpath /\ log'[Len(log')].new = cycleMarker
          /\ oldpath' = NoPath
    /\ (pc = "backward" /\ oldpath = NoPath /\ cycleMarker \in Cyclic(Plan)) =>
          /\ IsTmp(newpath)
          /\ log[Len(log)].old = newpath /\ log[Len(log)].new = cycleMarker

CycleBreaksAtStart ==
    [][/\ pc = "cycle" /\ pc' = "backward" => Breaks(cycleMarker)
       /\ EndsOnTmp]_vars

\* C21, with the file that is moved aside: as CycleBreaksAtStart, but the
\* file renamed to the temporary name is the last one of the cycle, the one
\* whose newpath is the oldpath the walk started from.
CycleBreaksAtLast ==
    [][/\ pc = "cycle" /\ pc' = "backward" =>
             /\ Breaks(oldpath)
             /\ renameOps[oldpath] = cycleMarker
             /\ oldpath # cycleMarker
       /\ EndsOnTmp]_vars

\* A cycle of three files has been processed: its last file has gone to the
\* temporary name, and from there to the path the walk started from.
CycleBreaksAtLastWitness ==
    /\ pc = "range"
    /\ Len(Attempts) = 4
    /\ IsTmp(Attempts[1].new)
    /\ Plan[Attempts[1].old] = cycleMarker
    /\ Attempts[4].old = Attempts[1].new
    /\ Attempts[4].new = cycleMarker
    /\ Attempts[4].result = "renamed"
    /\ target[cycleMarker] = Original(Attempts[1].old)

(***************************************************************************)
(* C22: in SpecRename, every edge of the relation built from the scan is   *)
(* attempted once and no more (renamed, skipped or failed), is in          *)
(* renameOps until it is attempted and no longer once it has been, and     *)
(* renameOps is empty when processRenames has returned.                    *)
(***************************************************************************)
\* The attempts on the edge of oldpath o, by their index in the log.
AttemptsOn(o) == {i \in 1..Len(log) : IsRename(log[i]) /\ log[i].old = o}

EachEdgeOnce ==
    pc \in {"range", "forward", "cycle", "backward", "exit"} =>
        LET plan == Plan
        IN  /\ \A o \in DOMAIN plan :
                  /\ Cardinality(AttemptsOn(o)) <= 1
                  /\ o \in DOMAIN renameOps <=> AttemptsOn(o) = {}
                  /\ o \in DOMAIN renameOps => renameOps[o] = plan[o]
                  /\ \A i \in AttemptsOn(o) :
                        /\ log[i].result \in {"renamed", "skipped", "failed"}
                        /\ log[i].new = plan[o] \/ IsTmp(log[i].new)
            /\ DOMAIN renameOps \subseteq DOMAIN plan
            /\ pc = "exit" => renameOps = EmptyMap

\* processRenames has returned after a rename that was done, one that was
\* skipped and one that failed.
EachEdgeOnceWitness ==
    /\ pc = "exit"
    /\ Cardinality(DOMAIN Plan) >= 3
    /\ \A o \in DOMAIN Plan : Cardinality(AttemptsOn(o)) = 1
    /\ {"renamed", "skipped", "failed"} \subseteq {Attempts[i].result : i \in 1..Len(Attempts)}

(***************************************************************************)
(* C23: in SpecRun, processRenames returns for every preview: main comes   *)
(* to its end (or to the log.Fatal of a temporary file that cannot be      *)
(* created), also when two oldpaths of the preview have the same newpath.  *)
(***************************************************************************)
Terminates == <>(pc \in {"exit", "fatal"})

(***************************************************************************)
(* C24: in Spec, in every state of the two scans and after them, a file of *)
(* SOURCE is the source of at most one entry of the table and a file of    *)
(* TARGET is the target of at most one entry; and the rename relation      *)
(* built from the table is injective: no two oldpaths have the same        *)
(* newpath.                                                                *)
(***************************************************************************)
\* The fingerprints of the entries whose target is the file at path p.
TargetKeys(es, p) == {k \in DOMAIN es : es[k].targetID.path = p}

OneEntryPerFile ==
    /\ \A p \in Paths : Cardinality(SourceKeys(entries, p)) <= 1
    /\ \A p \in Paths : Cardinality(TargetKeys(entries, p)) <= 1
    /\ \A o1, o2 \in DOMAIN renameOps : renameOps[o1] = renameOps[o2] => o1 = o2

\* The relation has two pairs, built from two entries with a source and a
\* target each, after a conflict in TARGET.
OneEntryPerFileWitness ==
    /\ pc = "exit"
    /\ Cardinality(DOMAIN renameOps) = 2
    /\ \A p \in DOMAIN source : Cardinality(SourceKeys(entries, p)) = 1
    /\ \E i \in 1..Len(log) : log[i].op = "target" /\ log[i].branch = "keepInput"

(***************************************************************************)
(* C25: in Spec, in every state of the two scans and after them, for every *)
(* entry with a source at a fingerprint of k > 0 rolls, the fingerprints   *)
(* of the source after 0..k-1 rolls hold dummy entries, and the table has  *)
(* no entry at a fingerprint that extends the fingerprint of an entry with *)
(* a source: a file with the content of the source is rolled through the   *)
(* dummies to this entry and no further.                                   *)
(***************************************************************************)
\* The entries with a source, by their fingerprint.
Sourced(es) == {k \in DOMAIN es : es[k].sourceID # nil}

\* The blocks a fingerprint is the digest of.
Digested(k) == IF k.pos = 0 THEN <<>> ELSE k.hash[1]

\* The fingerprint k2 is the one of more rolls of a file with the
\* fingerprint k.
Extends(k2, k) ==
    /\ k2.size = k.size
    /\ k2.pos > k.pos
    /\ Len(Digested(k2)) >= Len(Digested(k))
    /\ SubSeq(Digested(k2), 1, Len(Digested(k))) = Digested(k)

PrefixesDummy ==
    \A k \in Sourced(entries) :
        LET f == source[entries[k].sourceID.path]
        IN  /\ k = PrefixKey(f, k.pos)
            /\ \A i \in 0..(k.pos - 1) :
                  /\ PrefixKey(f, i) \in DOMAIN entries
                  /\ entries[PrefixKey(f, i)] = dummy
            /\ \A k2 \in DOMAIN entries : ~Extends(k2, k)

\* An entry with a source is at a fingerprint of two rolls, behind two dummy
\* entries, and a file of TARGET has been rolled to it.
PrefixesDummyWitness ==
    /\ pc = "exit"
    /\ \E k \in Sourced(entries) :
          /\ k.pos = 2
          /\ entries[k].targetID.path \in Paths
          /\ \E i \in 1..Len(log) :
                log[i].op = "target" /\ log[i].branch = "firstMatch" /\ log[i].inputKey = k

(***************************************************************************)
(* C26: in Spec, in every state, an entry of the table with a target (a    *)
(* file or the unsolvable sentinel) has a source, and main does not read   *)
(* the path of the source of an entry without one when it builds the       *)
(* relation.                                                               *)
(***************************************************************************)
TargetHasSource ==
    /\ \A k \in DOMAIN entries : entries[k].targetID # nil => entries[k].sourceID # nil
    /\ pc # "panic"

\* The relation has been built from a table with a dummy entry, an entry
\* with a file as target and an unsolvable entry.
TargetHasSourceWitness ==
    /\ pc = "exit"
    /\ dummy \in Range(entries)
    /\ \E v \in Range(entries) : v.targetID = unsolvable
    /\ \E v \in Range(entries) : v.targetID.path \in Paths

(***************************************************************************)
(* C27: in SpecOrder, where every file can be read, the rename relation    *)
(* main builds does not depend on the order in which the two walks         *)
(* produce the files: whatever the two orders, its pairs are those of the  *)
(* run that visits the files of SOURCE and the files of TARGET in the      *)
(* order of their paths.                                                   *)
(***************************************************************************)
\* The table after visitSource has visited the files of 'tree' at the paths
\* 1..n in this order.
RECURSIVE ScanSource(_, _, _)
ScanSource(es, tree, n) ==
    IF n = 0 THEN es
    ELSE LET e == ScanSource(es, tree, n - 1)
         IN  IF n \in DOMAIN tree THEN SourceVisitor(e, tree, n).entries ELSE e

\* The table after visitTarget has visited the files of tgt at the paths
\* 1..n in this order.
RECURSIVE ScanTarget(_, _, _, _)
ScanTarget(es, src, tgt, n) ==
    IF n = 0 THEN es
    ELSE LET e == ScanTarget(es, src, tgt, n - 1)
         IN  IF n \in DOMAIN tgt THEN TargetVisitor(e, src, tgt, n).entries ELSE e

\* The table of the run that visits the files in the order of their paths.
InPathOrder ==
    ScanTarget(ScanSource(EmptyMap, source, NumOrderSourcePaths), source, target,
               NumOrderPaths)

OrderIndependent == pc = "exit" => Pairs(renameOps) = Matched(InPathOrder)

\* The walk of TARGET has ended on the first of its three files after a
\* conflict, and the relation, which is the one of the run in the order of
\* the paths, has a pair.
OrderIndependentWitness ==
    /\ pc = "exit"
    /\ Cardinality(DOMAIN target) = 3
    /\ cursor = 1
    /\ dummy \in Range(entries)
    /\ renameOps # EmptyMap
    /\ Pairs(renameOps) = Matched(InPathOrder)

====
